---- MODULE Spec2Model ----
(***************************************************************************)
(* VideoDownloader desktop application (src/desktop/main_app.py).          *)
(*                                                                         *)
(* The model covers the download registry of VideoDownloaderGUI, the       *)
(* per-download worker thread (_download_worker with its progress_hook),   *)
(* the control-thread operations (start_download, remove_download,         *)
(* clear_completed) and the background update loop.  The assignments of    *)
(* the 'finished' branch of progress_hook, of the worker's completion      *)
(* fallback and of its exception handler are steps of their own, so that   *)
(* every state a polling reader can observe between them is a state of the *)
(* model.  The 'downloading' branch of progress_hook, which writes the     *)
(* display fields only, is one step.                                       *)
(*                                                                         *)
(* Around the registry the model has the reader of an item's fields        *)
(* (DownloadItemFrame.update_display, one step per field it reads), the    *)
(* format selector of the worker and of the command-line program           *)
(* (src/desktop/cli.py), the content preview of an analysed URL, and the   *)
(* settings file as the JSON text save_settings writes and load_settings   *)
(* parses, with the files that make the load raise.  The command-line      *)
(* program is followed from its arguments to its exit code.  The preview   *)
(* carries the analyses of analyze_url, whose threads post their result to *)
(* the main thread, and add_selected_to_queue, which makes one             *)
(* start_download call per step.                                           *)
(***************************************************************************)
EXTENDS Integers, Sequences, FiniteSets, TLC

(***************************************************************************)
(* Bounds of the model.                                                    *)
(***************************************************************************)
\* DownloadItem objects created over one run (start_download calls).
MaxTasks == 2
\* Digits of the height N in a quality string "<N>p".
MaxHeightDigits == 3
\* Entries of the result the analysis of a URL returns.
MaxEntries == 3
\* analyze_url calls over one run.
MaxAnalyses == 3
\* Progress callbacks the library delivers during one transfer.
MaxCallbacks == 3
\* Readings the system clock can return (0..MaxClock).
MaxClock == 1
\* The same two bounds when several downloads run side by side.
MaxQueueCallbacks == 1
MaxQueueClock == 0

VARIABLES
    items,            \* Seq of DownloadItem records, by creation order
    pc,               \* Seq: position of each item's worker thread
    cur,              \* Seq: payload the worker's progress_hook is handling
    exc,              \* Seq: exception in flight in each worker
    hist,             \* Seq: what happened to each worker (history)
    downloads,        \* VideoDownloaderGUI.downloads   (dict, insertion order)
    download_frames,  \* VideoDownloaderGUI.download_frames (dict)
    ctl,              \* control thread: clear_completed or add_selected_to_queue in progress
    loop,             \* background update loop thread
    now,              \* system clock reading
    options,          \* Seq: the options dict each worker was started with
    settings,         \* VideoDownloaderGUI.settings
    ydl_opts,         \* Seq: the format entries of each worker's ydl_opts
    view,             \* main thread: DownloadProgressFrame.update_display at work
    settings_file,    \* ~/.videodownloader_settings.json
    saved,            \* what the last save_settings call did (history)
    cli,              \* a run of the command-line program (cli.py)
    preview           \* current_preview_data, preview_items, content type label

vars == <<items, pc, cur, exc, hist, downloads, download_frames, ctl, loop, now,
          options, settings, ydl_opts, view, settings_file, saved, cli, preview>>

\* the state that the queue's own operations (start_download, the removals,
\* the workers, the update loop) neither read nor write
Elsewhere == <<view, settings_file, saved, cli, preview>>

(***************************************************************************)
(* Strings the code parses are sequences of characters; the others are     *)
(* opaque.                                                                 *)
(***************************************************************************)
DigitChars == {"0", "1", "2", "3", "4", "5", "6", "7", "8", "9"}

DigitVal(c) ==
    CASE c = "0" -> 0 [] c = "1" -> 1 [] c = "2" -> 2 [] c = "3" -> 3
      [] c = "4" -> 4 [] c = "5" -> 5 [] c = "6" -> 6 [] c = "7" -> 7
      [] c = "8" -> 8 [] c = "9" -> 9

\* str.replace(old, ''), old one character
RECURSIVE RemoveChar(_, _)
RemoveChar(s, c) ==
    IF s = <<>> THEN <<>>
    ELSE IF Head(s) = c THEN RemoveChar(Tail(s), c)
         ELSE <<Head(s)>> \o RemoveChar(Tail(s), c)

\* str.strip() of blanks, as float() does before it parses
RECURSIVE StripLeft(_)
StripLeft(s) ==
    IF s # <<>> /\ Head(s) = " " THEN StripLeft(Tail(s)) ELSE s

RECURSIVE StripRight(_)
StripRight(s) ==
    IF s # <<>> /\ s[Len(s)] = " " THEN StripRight(SubSeq(s, 1, Len(s) - 1)) ELSE s

RECURSIVE DecimalValue(_, _)
DecimalValue(s, acc) ==
    IF s = <<>> THEN acc ELSE DecimalValue(Tail(s), 10 * acc + DigitVal(Head(s)))

AllDigits(s) == \A i \in 1..Len(s) : s[i] \in DigitChars

DotAt(s) == IF \E i \in 1..Len(s) : s[i] = "."
            THEN CHOOSE i \in 1..Len(s) : s[i] = "." /\ \A j \in 1..(i - 1) : s[j] # "."
            ELSE 0

\* float(s): [ok |-> FALSE] when Python raises ValueError, else the value in
\* tenths of a unit.  Decimal literals "d+", "d+.d*" and ".d+" are parsed; the
\* library's percent strings have one fractional digit.
ParseFloat(str) ==
    LET s == StripRight(StripLeft(str))
        d == DotAt(s)
        ip == IF d = 0 THEN s ELSE SubSeq(s, 1, d - 1)
        fp == IF d = 0 THEN <<>> ELSE SubSeq(s, d + 1, Len(s))
    IN  IF AllDigits(ip) /\ AllDigits(fp) /\ Len(ip) + Len(fp) > 0
        THEN [ok |-> TRUE,
              val |-> 10 * DecimalValue(ip, 0)
                      + (IF fp = <<>> THEN 0 ELSE DigitVal(fp[1]))]
        ELSE [ok |-> FALSE, val |-> 0]

\* Path(p).name: the last component of a path (a sequence of components)
PathName(p) == IF p = <<>> THEN "" ELSE p[Len(p)]

\* progress is kept in tenths of a percent: 100.0 is 1000
Progress100 == 1000

\* f"{n}" for a natural number n
RECURSIVE FormatNat(_)
FormatNat(n) ==
    LET c == CHOOSE ch \in DigitChars : DigitVal(ch) = n % 10
    IN  IF n < 10 THEN <<c>> ELSE FormatNat(n \div 10) \o <<c>>

(***************************************************************************)
(* DownloadItem (main_app.py:31-47).  end_time None is <<>>, a timestamp t *)
(* is <<t>>; title is a sequence of words; file_size, filename as written  *)
(* by progress_hook.                                                       *)
(***************************************************************************)
None == <<>>

\* f"download_{int(time.time())}_{id(self)}"
MakeId(sec, addr) == <<"download", sec, addr>>

NewDownloadItem(url, sec, addr) ==
    [id        |-> MakeId(sec, addr),
     url       |-> url,
     title     |-> <<"Unknown">>,
     status    |-> "pending",
     progress  |-> 0,
     speed     |-> "",
     eta       |-> "",
     file_size |-> <<>>,
     filename  |-> "",
     filepath  |-> <<>>,
     error     |-> "",
     end_time  |-> None]

Terminal == {"completed", "failed", "cancelled"}

(***************************************************************************)
(* What the extraction library hands to progress_hook: a dict d with a     *)
(* status tag and optional fields.  has_x says whether key x is present;   *)
(* total_bytes and filename carry their Python type.                       *)
(***************************************************************************)
Payload(st, hp, p, hs, s, he, e, bk, b, fk, f) ==
    [status |-> st, has_percent |-> hp, percent |-> p,
     has_speed |-> hs, speed |-> s, has_eta |-> he, eta |-> e,
     bytes_kind |-> bk, bytes |-> b, fname_kind |-> fk, fname |-> f]

OutFile == <<"out", "a.mp4">>
FiveMiB == 5 * 1024 * 1024

PFull10 == Payload("downloading", TRUE, <<" ", "1", "0", ".", "0", "%">>,
                   TRUE, "1.0MiB/s", TRUE, "00:09", "int", FiveMiB, "str", OutFile)
PFull55 == Payload("downloading", TRUE, <<" ", "5", "5", ".", "0", "%">>,
                   TRUE, "1.0MiB/s", TRUE, "00:09", "int", FiveMiB, "str", OutFile)
\* a payload with the status tag only
PBare == Payload("downloading", FALSE, <<>>, FALSE, "", FALSE, "",
                 "missing", 0, "missing", <<>>)
\* _percent_str is not a number
PBadPercent == Payload("downloading", TRUE, <<"N", "/", "A", "%">>,
                       TRUE, "1.0MiB/s", TRUE, "00:09", "int", FiveMiB, "str", OutFile)
\* total_bytes is a string
PBadBytes == Payload("downloading", TRUE, <<" ", "5", "5", ".", "0", "%">>,
                     TRUE, "1.0MiB/s", TRUE, "00:09", "str", 0, "str", OutFile)
PFinished == Payload("finished", FALSE, <<>>, FALSE, "", FALSE, "",
                     "missing", 0, "str", OutFile)
PFinishedBare == Payload("finished", FALSE, <<>>, FALSE, "", FALSE, "",
                         "missing", 0, "missing", <<>>)
NoPayload == Payload("", FALSE, <<>>, FALSE, "", FALSE, "", "missing", 0, "missing", <<>>)

AllPayloads == {PFull10, PFull55, PBare, PBadPercent, PBadBytes, PFinished, PFinishedBare}
CorePayloads == {PFull55, PFinished}

(***************************************************************************)
(* Exceptions: class and message; str(e) is the message.                   *)
(***************************************************************************)
NoExc == [cls |-> "", msg |-> ""]
OSErrorExc == [cls |-> "PermissionError", msg |-> "[Errno 13] Permission denied"]
DownloadErrorExc == [cls |-> "DownloadError", msg |-> "ERROR: unable to download"]
TypeErrorExc == [cls |-> "TypeError", msg |-> "unsupported operand type(s) for //"]

Str(e) == e.msg

(***************************************************************************)
(* Options dicts handed to start_download.  A key that is absent has the   *)
(* value "" (type, format_id) or FALSE (flags), which is what              *)
(* options.get(key, default) makes of it in every test the worker does.    *)
(***************************************************************************)
\* quality strings are sequences of characters (the worker removes 'p' from
\* them); container names are compared whole
QBest == <<"b", "e", "s", "t">>
QWorst == <<"w", "o", "r", "s", "t">>

\* keys holds the names of the keys the dict has; quality and
\* format_preference are "" when absent
Options(ty, fid, ao, mo) ==
    [type |-> ty, format_id |-> fid, audio_only |-> ao, metadata_only |-> mo,
     quality |-> "", format_preference |-> "",
     keys |-> (IF ty # "" THEN {"type"} ELSE {})
              \cup (IF fid # "" THEN {"format_id"} ELSE {})
              \cup (IF ao THEN {"audio_only"} ELSE {})
              \cup (IF mo THEN {"metadata_only"} ELSE {})]

\* the dict o with 'quality': q and 'format_preference': f added
WithQuality(o, q, f) ==
    [o EXCEPT !.quality = q, !.format_preference = f,
              !.keys = @ \cup {"quality", "format_preference"}]

\* load_settings' default_settings (main_app.py:424-433); output_dir is a
\* path
DefaultSettings ==
    [output_dir |-> <<"home", "Downloads", "VideoDownloader">>,
     quality |-> QBest,
     format_preference |-> "mp4",
     audio_only |-> FALSE,
     include_subtitles |-> FALSE,
     concurrent_downloads |-> 3,
     organize_in_folders |-> FALSE,
     save_metadata |-> FALSE]

\* add_selected_to_queue: video_options, audio_options, metadata_options
video_options(st) == WithQuality(Options("video", "", FALSE, FALSE),
                                 st.quality, st.format_preference)
VideoOptions == video_options(DefaultSettings)
AudioOptions == Options("audio", "", TRUE, FALSE)
MetadataOptions == Options("metadata", "", FALSE, TRUE)
\* VideoPreviewWindow.download_selected and download_best
FormatIdOptions == Options("", "137", FALSE, FALSE)
BestOptions == [Options("", "", FALSE, FALSE) EXCEPT !.quality = QBest,
                                                     !.keys = {"quality"}]

AllOptions == {VideoOptions, AudioOptions, MetadataOptions, FormatIdOptions, BestOptions}

\* options.get('type', 'video')
DownloadType(o) == IF o.type = "" THEN "video" ELSE o.type

(***************************************************************************)
(* progress_hook, d['status'] == 'downloading' (main_app.py:965-980).      *)
(* The result is the item after the branch and whether the branch raised;  *)
(* an assignment made before the raise stays made.                         *)
(***************************************************************************)
HookPercent(item, d) ==
    LET percent_str == RemoveChar(IF d.has_percent THEN d.percent ELSE <<"0", "%">>, "%")
        f == ParseFloat(percent_str)
    IN  IF f.ok THEN [item EXCEPT !.progress = f.val] ELSE item

HookSpeedEta(item, d) ==
    [item EXCEPT !.speed = IF d.has_speed THEN d.speed ELSE "",
                 !.eta   = IF d.has_eta THEN d.eta ELSE ""]

\* d.get('total_bytes') is truthy: a non-zero int, or a (non-empty) string
BytesTruthy(d) ==
    \/ d.bytes_kind = "int" /\ d.bytes # 0
    \/ d.bytes_kind = "str"

HookFileSize(item, d) ==
    IF BytesTruthy(d) /\ d.bytes_kind = "int"
    THEN [item EXCEPT !.file_size = FormatNat((d.bytes \div 1024) \div 1024) \o <<"M", "B">>]
    ELSE item

\* d['total_bytes']//1024 on a string raises TypeError
HookFileSizeRaises(d) == BytesTruthy(d) /\ d.bytes_kind # "int"

HookFilename(item, d) ==
    IF d.fname_kind = "str" /\ d.fname # <<>>
    THEN [item EXCEPT !.filename = PathName(d.fname)]
    ELSE item

OnDownloading(item, d) ==
    LET i1 == HookPercent(item, d)
        i2 == HookSpeedEta(i1, d)
    IN  IF HookFileSizeRaises(d)
        THEN [item |-> i2, raised |-> TRUE]
        ELSE [item |-> HookFilename(HookFileSize(i2, d), d), raised |-> FALSE]

(***************************************************************************)
(* progress_hook, d['status'] == 'finished' (main_app.py:982-988): the     *)
(* item after the step-th assignment.                                      *)
(***************************************************************************)
\* a 'finished' branch that leaves progress as the last callback set it
FinishedWriteKeepsProgress(item, step, d, t) ==
    CASE step = 1 -> [item EXCEPT !.status = "completed"]
      [] step = 2 -> item
      [] step = 3 -> [item EXCEPT !.end_time = <<t>>]
      [] step = 4 -> IF d.fname_kind = "str" /\ d.fname # <<>>
                     THEN [item EXCEPT !.filename = PathName(d.fname),
                                       !.filepath = d.fname]
                     ELSE item

FinishedWrite(item, step, d, t) ==
    CASE step = 1 -> [item EXCEPT !.status = "completed"]
      [] step = 2 -> [item EXCEPT !.progress = Progress100]
      [] step = 3 -> [item EXCEPT !.end_time = <<t>>]
      [] step = 4 -> IF d.fname_kind = "str" /\ d.fname # <<>>
                     THEN [item EXCEPT !.filename = PathName(d.fname),
                                       !.filepath = d.fname]
                     ELSE item

(***************************************************************************)
(* _download_worker after the transfer returned (main_app.py:1094-1097).   *)
(***************************************************************************)
PostNeeded(item) == item.status # "completed"

PostWrite(item, step, t) ==
    CASE step = 1 -> [item EXCEPT !.status = "completed"]
      [] step = 2 -> [item EXCEPT !.progress = Progress100]
      [] step = 3 -> [item EXCEPT !.end_time = <<t>>]

(***************************************************************************)
(* _download_worker's exception handler (main_app.py:1099-1102).           *)
(***************************************************************************)
\* a handler that records no end_time
ExcWriteNoEndTime(item, step, e, t) ==
    CASE step = 1 -> [item EXCEPT !.status = "failed"]
      [] step = 2 -> [item EXCEPT !.error = Str(e)]
      [] step = 3 -> item

\* a handler that writes the error before the status
ExcWriteErrorFirst(item, step, e, t) ==
    CASE step = 1 -> [item EXCEPT !.error = Str(e)]
      [] step = 2 -> [item EXCEPT !.status = "failed"]
      [] step = 3 -> [item EXCEPT !.end_time = <<t>>]

ExcWrite(item, step, e, t) ==
    CASE step = 1 -> [item EXCEPT !.status = "failed"]
      [] step = 2 -> [item EXCEPT !.error = Str(e)]
      [] step = 3 -> [item EXCEPT !.end_time = <<t>>]

(***************************************************************************)
(* The title tag written while the options are resolved                    *)
(* (main_app.py:1011-1034).                                                *)
(***************************************************************************)
TitleTag(o, st) ==
    LET download_type == DownloadType(o)
        force_audio_only == o.audio_only \/ st.audio_only
    IN  IF o.format_id # "" THEN <<>>
        ELSE IF download_type = "metadata" \/ o.metadata_only THEN <<"[Metadata]">>
        ELSE IF download_type = "audio" \/ force_audio_only THEN <<"[Audio]">>
        ELSE IF download_type = "video" THEN <<"[Video]">>
        ELSE <<>>

(***************************************************************************)
(* Format selector strings.  A selector is the sequence of its lexical     *)
(* pieces; a number interpolated into it contributes its characters, so    *)
(* '[height<=720]' is "[height<=", "7", "2", "0", "]".                     *)
(***************************************************************************)
\* f'[height<={n}]'
HeightFilter(n) == <<"[height<=">> \o n \o <<"]">>

Cap1080 == HeightFilter(<<"1", "0", "8", "0">>)

\* a conversion to a number and back, which loses leading zeros
RECURSIVE QualityNumAsInt(_)
QualityNumAsInt(quality) ==
    IF Len(quality) > 2 /\ Head(quality) = "0"
    THEN QualityNumAsInt(Tail(quality))
    ELSE RemoveChar(quality, "p")

\* quality.replace('p', '') (main_app.py:1067, cli.py:56)
QualityNum(quality) == RemoveChar(quality, "p")

\* ydl_opts before the format is chosen
NoFormat == [format |-> <<>>, merge_output_format |-> ""]

YdlFormat(f, m) == [format |-> f, merge_output_format |-> m]

\* main_app.py:1036-1043
AudioFormat(format_pref) ==
    CASE format_pref = "mp4" -> <<"ba", "[ext=m4a]", "/", "ba">>
      [] format_pref = "webm" -> <<"ba", "[ext=webm]", "/", "ba">>
      [] OTHER -> <<"ba", "/", "b">>

\* a default branch that does not prefer mp4
BestFormatAnyIsMkv(format_pref) ==
    CASE format_pref = "mp4" ->
           YdlFormat(<<"bv*", "[ext=mp4]">> \o Cap1080 \o <<"+", "ba", "[ext=m4a]", "/",
                       "bv*">> \o Cap1080 \o <<"+", "ba", "/", "b">> \o Cap1080, "mp4")
      [] format_pref = "webm" ->
           YdlFormat(<<"bv*", "[ext=webm]", "+", "ba", "[ext=webm]", "/",
                       "bv*", "+", "ba">>, "webm")
      [] OTHER ->
           YdlFormat(<<"bv*", "+", "ba", "/", "b">>, "mkv")

\* main_app.py:1046-1062
BestFormat(format_pref) ==
    CASE format_pref = "mp4" ->
           YdlFormat(<<"bv*", "[ext=mp4]">> \o Cap1080 \o <<"+", "ba", "[ext=m4a]", "/",
                       "bv*">> \o Cap1080 \o <<"+", "ba", "/", "b">> \o Cap1080, "mp4")
      [] format_pref = "webm" ->
           YdlFormat(<<"bv*", "[ext=webm]", "+", "ba", "[ext=webm]", "/",
                       "bv*", "+", "ba">>, "webm")
      [] format_pref = "mkv" ->
           YdlFormat(<<"bv*", "+", "ba", "/", "b">>, "mkv")
      [] OTHER ->
           YdlFormat(<<"bv*", "[ext=mp4]", "+", "ba", "[ext=m4a]", "/",
                       "bv*", "+", "ba", "/", "b">>, "mp4")

\* main_app.py:1065-1078
HeightFormat(quality, format_pref) ==
    LET quality_num == QualityNum(quality)
    IN  CASE format_pref = "mp4" ->
               YdlFormat(<<"bv*">> \o HeightFilter(quality_num)
                            \o <<"[ext=mp4]", "+", "ba", "[ext=m4a]", "/", "bv*">>
                            \o HeightFilter(quality_num) \o <<"+", "ba">>, "mp4")
          [] format_pref = "webm" ->
               YdlFormat(<<"bv*">> \o HeightFilter(quality_num)
                            \o <<"[ext=webm]", "+", "ba", "[ext=webm]", "/", "bv*">>
                            \o HeightFilter(quality_num) \o <<"+", "ba">>, "webm")
          [] format_pref = "mkv" ->
               YdlFormat(<<"bv*">> \o HeightFilter(quality_num) \o <<"+", "ba">>, "mkv")
          [] OTHER ->
               YdlFormat(<<"bv*">> \o HeightFilter(quality_num) \o <<"+", "ba">>, "")

\* main_app.py:1044-1078, the branch for downloads with video
VideoFormat(quality, format_pref) ==
    IF quality = QBest THEN BestFormat(format_pref)
    ELSE IF quality = QWorst THEN YdlFormat(<<"wv*", "+", "wa", "/", "w">>, "")
    ELSE HeightFormat(quality, format_pref)

\* options.get(key, self.settings.get(key, default)), lines 1018-1019
OptionOrSetting(o, st, key) == IF key \in o.keys THEN o[key] ELSE st[key]

\* main_app.py:1011-1078: the format and merge_output_format the worker
\* puts into ydl_opts for options o under settings st
WorkerFormat(o, st) ==
    LET download_type == DownloadType(o)
        force_audio_only == o.audio_only \/ st.audio_only
        format_pref == OptionOrSetting(o, st, "format_preference")
        quality == OptionOrSetting(o, st, "quality")
    IN  IF o.format_id # "" THEN YdlFormat(<<o.format_id>>, "")
        ELSE IF download_type = "audio" \/ force_audio_only
             THEN YdlFormat(AudioFormat(format_pref), "")
             ELSE VideoFormat(quality, format_pref)

(***************************************************************************)
(* Python dict, as CPython keeps it: entries in insertion order; del       *)
(* leaves a tombstone in place; assignment to a present key overwrites its *)
(* value in place; a new key is appended.  (The entry table is not         *)
(* compacted before its 6th insertion, which MaxTasks stays below.)        *)
(***************************************************************************)
Tombstone == [key |-> <<>>, val |-> 0]

Live(d) == {i \in 1..Len(d) : d[i] # Tombstone}
DictKeys(d) == {d[i].key : i \in Live(d)}
DictVals(d) == {d[i].val : i \in Live(d)}
DictHas(d, k) == k \in DictKeys(d)
DictUsed(d) == Cardinality(Live(d))
DictIndex(d, k) == CHOOSE i \in Live(d) : d[i].key = k
DictGet(d, k) == d[DictIndex(d, k)].val

DictSet(d, k, v) ==
    IF DictHas(d, k) THEN [d EXCEPT ![DictIndex(d, k)].val = v]
    ELSE Append(d, [key |-> k, val |-> v])

DictDel(d, k) ==
    IF DictHas(d, k) THEN [d EXCEPT ![DictIndex(d, k)] = Tombstone] ELSE d

(***************************************************************************)
(* Objects.  Item o and the DownloadProgressFrame built for it share the   *)
(* index o.  An object is referenced while a registry holds it (the frame  *)
(* holds its item) or its worker thread has not ended; id(self) of a new   *)
(* object is an address no referenced object occupies.                     *)
(***************************************************************************)
Created == 1..Len(items)
Addr(o) == items[o].id[3]
Referenced(o) ==
    \/ o \in DictVals(downloads)
    \/ o \in DictVals(download_frames)
    \/ pc[o][1] # "done"

UsedAddrs == {Addr(o) : o \in Created}
\* the addresses the allocator may hand out: one never used, or one freed
NewAddrs ==
    LET fresh == {a \in 1..(Len(items) + 1) :
                     a \notin UsedAddrs /\ \A b \in 1..(a - 1) : b \in UsedAddrs}
        freed == {Addr(o) : o \in {x \in Created : ~Referenced(x)}}
                 \ {Addr(o) : o \in {x \in Created : Referenced(x)}}
    IN  fresh \cup freed

NoHist == [cbs |-> <<>>, raised |-> "", returned |-> FALSE, info |-> ""]

(***************************************************************************)
(* Control thread.                                                         *)
(***************************************************************************)
\* the checkboxes Video, Audio, Metadata (main_app.py:528-550)
Kinds(video, audio, metadata) == [video |-> video, audio |-> audio, metadata |-> metadata]
NoKinds == Kinds(FALSE, FALSE, FALSE)

\* to_remove is clear_completed's local; requests and kinds are
\* add_selected_to_queue's: the start_download calls it is to make, and the
\* checkbox values it read; base is the number of items there were when it
\* was called, called the ids whose task was completed, failed or cancelled
\* when clear_completed was called (history)
Idle == [pc |-> "idle", pos |-> 0, to_remove |-> <<>>, requests |-> <<>>,
         kinds |-> NoKinds, base |-> 0, called |-> {}]

\* update_display is not running
NoView == [pc |-> "idle", of |-> 0, text |-> "", color |-> "", bar |-> 0,
           details |-> <<>>]

\* the main thread runs one callback at a time: a new one starts only when
\* neither clear_completed nor update_display is under way
MainThreadFree == ctl.pc = "idle" /\ view.pc = "idle"

\* remove_download (main_app.py:1105-1111)
RemoveFrom(d, download_id) == DictDel(d, download_id)

\* a start_download that keeps a new task waiting while as many tasks are
\* downloading as concurrent_downloads allows
StartDownloadThrottled(limit, Urls, Opts, clk) ==
    /\ MainThreadFree
    /\ Len(items) < limit
    /\ \E url \in Urls, o \in Opts, addr \in NewAddrs, tm \in now..clk :
         LET item == NewDownloadItem(url, tm, addr)
             n == Len(items) + 1
             busy == {t \in Created : pc[t][1] # "done"}
         IN  /\ items' = Append(items, item)
             /\ now' = tm
             /\ downloads' = DictSet(downloads, item.id, n)
             /\ download_frames' = DictSet(download_frames, item.id, n)
             /\ pc' = Append(pc, IF Cardinality(busy) >= settings.concurrent_downloads
                                 THEN <<"done", 0>> ELSE <<"start", 0>>)
             /\ cur' = Append(cur, NoPayload)
             /\ exc' = Append(exc, NoExc)
             /\ hist' = Append(hist, NoHist)
             /\ options' = Append(options, o)
             /\ ydl_opts' = Append(ydl_opts, NoFormat)
    /\ UNCHANGED <<ctl, loop, settings>>
    /\ UNCHANGED Elsewhere

\* start_download (main_app.py:930-951): the item and its frame are
\* registered and the worker thread is started
StartDownload(limit, Urls, Opts, clk) ==
    /\ MainThreadFree
    /\ Len(items) < limit
    /\ \E url \in Urls, o \in Opts, addr \in NewAddrs, tm \in now..clk :
         LET item == NewDownloadItem(url, tm, addr)
             n == Len(items) + 1
         IN  /\ items' = Append(items, item)
             /\ now' = tm
             /\ downloads' = DictSet(downloads, item.id, n)
             /\ download_frames' = DictSet(download_frames, item.id, n)
             /\ pc' = Append(pc, <<"start", 0>>)
             /\ cur' = Append(cur, NoPayload)
             /\ exc' = Append(exc, NoExc)
             /\ hist' = Append(hist, NoHist)
             /\ options' = Append(options, o)
             /\ ydl_opts' = Append(ydl_opts, NoFormat)
    /\ UNCHANGED <<ctl, loop, settings>>
    /\ UNCHANGED Elsewhere

\* a removal that forgets the frame's entry
FrameRemoveKeepsFrame ==
    /\ MainThreadFree
    /\ \E f \in DictVals(download_frames) :
         /\ downloads' = RemoveFrom(downloads, items[f].id)
         /\ download_frames' = download_frames
    /\ UNCHANGED <<items, pc, cur, exc, hist, ctl, loop, now, options, settings,
                   ydl_opts>>
    /\ UNCHANGED Elsewhere

\* DownloadProgressFrame.remove (main_app.py:391-393): the frame's button;
\* the frame passes its own item's id to remove_download
FrameRemove ==
    /\ MainThreadFree
    /\ \E f \in DictVals(download_frames) :
         /\ downloads' = RemoveFrom(downloads, items[f].id)
         /\ download_frames' = RemoveFrom(download_frames, items[f].id)
    /\ UNCHANGED <<items, pc, cur, exc, hist, ctl, loop, now, options, settings,
                   ydl_opts>>
    /\ UNCHANGED Elsewhere

\* clear_completed (main_app.py:1113-1118): the scan of downloads.items(),
\* one entry read per step
ClearCompletedBegin ==
    /\ MainThreadFree
    /\ ctl' = [Idle EXCEPT !.pc = "cc_scan",
                           !.called = {k \in DictKeys(downloads) :
                                          items[DictGet(downloads, k)].status \in Terminal}]
    /\ UNCHANGED <<items, pc, cur, exc, hist, downloads, download_frames, loop, now,
                   options, settings, ydl_opts>>
    /\ UNCHANGED Elsewhere

\* a scan that takes every task that is not pending
ClearCompletedScanTakesStarted ==
    /\ ctl.pc = "cc_scan"
    /\ LET rest == {i \in Live(downloads) : i > ctl.pos}
       IN  IF rest = {}
           THEN ctl' = [ctl EXCEPT !.pc = "cc_remove", !.pos = 0]
           ELSE LET i == CHOOSE j \in rest : \A k \in rest : j <= k
                    e == downloads[i]
                IN  ctl' = [ctl EXCEPT !.pos = i,
                                       !.to_remove =
                                           IF items[e.val].status # "pending"
                                           THEN Append(@, e.key) ELSE @]
    /\ UNCHANGED <<items, pc, cur, exc, hist, downloads, download_frames, loop, now,
                   options, settings, ydl_opts>>
    /\ UNCHANGED Elsewhere

ClearCompletedScan ==
    /\ ctl.pc = "cc_scan"
    /\ LET rest == {i \in Live(downloads) : i > ctl.pos}
       IN  IF rest = {}
           THEN ctl' = [ctl EXCEPT !.pc = "cc_remove", !.pos = 0]
           ELSE LET i == CHOOSE j \in rest : \A k \in rest : j <= k
                    e == downloads[i]
                IN  ctl' = [ctl EXCEPT !.pos = i,
                                       !.to_remove =
                                           IF items[e.val].status \in Terminal
                                           THEN Append(@, e.key) ELSE @]
    /\ UNCHANGED <<items, pc, cur, exc, hist, downloads, download_frames, loop, now,
                   options, settings, ydl_opts>>
    /\ UNCHANGED Elsewhere

\* clear_completed (main_app.py:1120-1123): one removal per step
ClearCompletedRemove ==
    /\ ctl.pc = "cc_remove"
    /\ IF ctl.pos < Len(ctl.to_remove)
       THEN /\ downloads' = RemoveFrom(downloads, ctl.to_remove[ctl.pos + 1])
            /\ download_frames' = RemoveFrom(download_frames, ctl.to_remove[ctl.pos + 1])
            /\ ctl' = [ctl EXCEPT !.pos = @ + 1]
       ELSE /\ ctl' = Idle
            /\ UNCHANGED <<downloads, download_frames>>
    /\ UNCHANGED <<items, pc, cur, exc, hist, loop, now, options, settings, ydl_opts>>
    /\ UNCHANGED Elsewhere

(***************************************************************************)
(* Worker thread of item t: _download_worker (main_app.py:953-1103).       *)
(* pc[t] is <<place, step>>.                                               *)
(***************************************************************************)
At(t, place) == t \in Created /\ pc[t][1] = place

WorkerFrame == <<downloads, download_frames, ctl, loop, options, settings, ydl_opts,
                 Elsewhere>>

\* what a read of the system clock (time.time(), datetime.now()) can return:
\* the last reading or a later one
ClockReads(clk) == now..clk

\* the handler is entered with exception e raised at `site`
Raise(t, e, site) ==
    /\ exc' = [exc EXCEPT ![t] = e]
    /\ hist' = [hist EXCEPT ![t].raised = site]
    /\ pc' = [pc EXCEPT ![t] = <<"exc", 1>>]

\* line 957
WorkerStart(t) ==
    /\ At(t, "start")
    /\ items' = [items EXCEPT ![t].status = "downloading"]
    /\ pc' = [pc EXCEPT ![t] = <<"mkdir", 0>>]
    /\ UNCHANGED <<cur, exc, hist>>
    /\ UNCHANGED <<WorkerFrame, now>>

\* lines 960-961: output_dir.mkdir(parents=True, exist_ok=True)
Mkdir(t) ==
    /\ At(t, "mkdir")
    /\ \/ /\ pc' = [pc EXCEPT ![t] = <<"opts", 0>>]
          /\ UNCHANGED <<exc, hist>>
       \/ Raise(t, OSErrorExc, "mkdir")
    /\ UNCHANGED <<items, cur>>
    /\ UNCHANGED <<WorkerFrame, now>>

\* lines 1011-1034
ResolveOptions(t) ==
    /\ At(t, "opts")
    /\ items' = [items EXCEPT ![t].title = TitleTag(options[t], settings) \o @]
    /\ ydl_opts' = [ydl_opts EXCEPT ![t] = WorkerFormat(options[t], settings)]
    /\ pc' = [pc EXCEPT ![t] = <<"extract", 0>>]
    /\ UNCHANGED <<cur, exc, hist>>
    /\ UNCHANGED <<downloads, download_frames, ctl, loop, options, settings, Elsewhere,
                   now>>

\* lines 1088-1089: info = ydl.extract_info(url, download=False);
\* title = info.get('title', title).  info carries a title or none.
ResolvedTitle == <<"Resolved", "Title">>

\* the resolved title put behind the first word of the title there was
InfoTitleKeepsPrefix(item, has_title) ==
    IF has_title THEN <<Head(item.title)>> \o ResolvedTitle ELSE item.title

InfoTitle(item, has_title) == IF has_title THEN ResolvedTitle ELSE item.title

\* hist[t].info records whether the result carried a title
Extract(t, Titled) ==
    /\ At(t, "extract")
    /\ \/ /\ \E has_title \in Titled :
               /\ items' = [items EXCEPT ![t].title = InfoTitle(items[t], has_title)]
               /\ hist' = [hist EXCEPT ![t].info =
                               IF has_title THEN "title" ELSE "no title"]
          /\ pc' = [pc EXCEPT ![t] = <<"download", 0>>]
          /\ UNCHANGED exc
       \/ /\ Raise(t, DownloadErrorExc, "extract")
          /\ UNCHANGED items
    /\ UNCHANGED cur
    /\ UNCHANGED <<WorkerFrame, now>>

\* line 1092, inside ydl.download: the library calls progress_hook with a
\* 'downloading' payload; the branch runs on the worker thread
CallDownloading(t, Payloads, limit) ==
    /\ At(t, "download")
    /\ Len(hist[t].cbs) < limit
    /\ \E d \in {x \in Payloads : x.status = "downloading"} :
         LET r == OnDownloading(items[t], d)
         IN  /\ items' = [items EXCEPT ![t] = r.item]
             /\ cur' = [cur EXCEPT ![t] = d]
             /\ IF r.raised
                THEN /\ exc' = [exc EXCEPT ![t] = TypeErrorExc]
                     /\ hist' = [hist EXCEPT ![t].cbs = Append(@, "downloading"),
                                             ![t].raised = "hook"]
                     /\ pc' = [pc EXCEPT ![t] = <<"exc", 1>>]
                ELSE /\ hist' = [hist EXCEPT ![t].cbs = Append(@, "downloading")]
                     /\ UNCHANGED <<exc, pc>>
    /\ UNCHANGED <<WorkerFrame, now>>

\* the library calls progress_hook with a 'finished' payload
CallFinished(t, Payloads, limit) ==
    /\ At(t, "download")
    /\ Len(hist[t].cbs) < limit
    /\ \E d \in {x \in Payloads : x.status = "finished"} :
         cur' = [cur EXCEPT ![t] = d]
    /\ hist' = [hist EXCEPT ![t].cbs = Append(@, "finished")]
    /\ pc' = [pc EXCEPT ![t] = <<"fin", 1>>]
    /\ UNCHANGED <<items, exc>>
    /\ UNCHANGED <<WorkerFrame, now>>

\* lines 983-988, one assignment per step
FinishedStep(t, clk) ==
    /\ At(t, "fin")
    /\ \E tm \in IF pc[t][2] = 3 THEN ClockReads(clk) ELSE {now} :
         /\ items' = [items EXCEPT ![t] = FinishedWrite(@, pc[t][2], cur[t], tm)]
         /\ now' = tm
    /\ pc' = [pc EXCEPT ![t] = IF pc[t][2] < 4 THEN <<"fin", pc[t][2] + 1>>
                               ELSE <<"download", 0>>]
    /\ UNCHANGED <<cur, exc, hist>>
    /\ UNCHANGED WorkerFrame

\* ydl.download returns, or raises
DownloadEnds(t) ==
    /\ At(t, "download")
    /\ \/ /\ pc' = [pc EXCEPT ![t] = <<"post", 0>>]
          /\ hist' = [hist EXCEPT ![t].returned = TRUE]
          /\ UNCHANGED exc
       \/ Raise(t, DownloadErrorExc, "download")
    /\ UNCHANGED <<items, cur>>
    /\ UNCHANGED <<WorkerFrame, now>>

\* line 1094
PostCheck(t) ==
    /\ At(t, "post")
    /\ pc' = [pc EXCEPT ![t] = IF PostNeeded(items[t]) THEN <<"postw", 1>>
                               ELSE <<"done", 0>>]
    /\ UNCHANGED <<items, cur, exc, hist>>
    /\ UNCHANGED <<WorkerFrame, now>>

\* lines 1095-1097
PostStep(t, clk) ==
    /\ At(t, "postw")
    /\ \E tm \in IF pc[t][2] = 3 THEN ClockReads(clk) ELSE {now} :
         /\ items' = [items EXCEPT ![t] = PostWrite(@, pc[t][2], tm)]
         /\ now' = tm
    /\ pc' = [pc EXCEPT ![t] = IF pc[t][2] < 3 THEN <<"postw", pc[t][2] + 1>>
                               ELSE <<"done", 0>>]
    /\ UNCHANGED <<cur, exc, hist>>
    /\ UNCHANGED WorkerFrame

\* a handler that marks every download still running as failed
ExcStepFailsAll(t, clk) ==
    /\ At(t, "exc")
    /\ \E tm \in IF pc[t][2] = 3 THEN ClockReads(clk) ELSE {now} :
         /\ items' = [u \in DOMAIN items |->
                         IF u = t \/ items[u].status = "downloading"
                         THEN ExcWrite(items[u], pc[t][2], exc[t], tm)
                         ELSE items[u]]
         /\ now' = tm
    /\ pc' = [pc EXCEPT ![t] = IF pc[t][2] < 3 THEN <<"exc", pc[t][2] + 1>>
                               ELSE <<"done", 0>>]
    /\ UNCHANGED <<cur, exc, hist>>
    /\ UNCHANGED WorkerFrame

\* lines 1100-1102
ExcStep(t, clk) ==
    /\ At(t, "exc")
    /\ \E tm \in IF pc[t][2] = 3 THEN ClockReads(clk) ELSE {now} :
         /\ items' = [items EXCEPT ![t] = ExcWrite(@, pc[t][2], exc[t], tm)]
         /\ now' = tm
    /\ pc' = [pc EXCEPT ![t] = IF pc[t][2] < 3 THEN <<"exc", pc[t][2] + 1>>
                               ELSE <<"done", 0>>]
    /\ UNCHANGED <<cur, exc, hist>>
    /\ UNCHANGED WorkerFrame

Worker(t, Payloads, limit, Titled, clk) ==
    \/ WorkerStart(t)
    \/ Mkdir(t)
    \/ ResolveOptions(t)
    \/ Extract(t, Titled)
    \/ CallDownloading(t, Payloads, limit)
    \/ CallFinished(t, Payloads, limit)
    \/ FinishedStep(t, clk)
    \/ DownloadEnds(t)
    \/ PostCheck(t)
    \/ PostStep(t, clk)
    \/ ExcStep(t, clk)

(***************************************************************************)
(* Background update loop (main_app.py:1140-1152).  The for statement      *)
(* iterates download_frames.values(): the iterator remembers the dict's    *)
(* size (used), the entries still expected (len) and its place (pos), and  *)
(* each next() raises RuntimeError when the size changed, or when an entry *)
(* turns up that was not expected.  The bare except leaves the loop.       *)
(***************************************************************************)
LoopInit == [pc |-> "iter", used |-> 0, len |-> 0, pos |-> 0, raised |-> ""]

LoopFrame == <<items, pc, cur, exc, hist, downloads, download_frames, ctl, now,
               options, settings, ydl_opts, Elsewhere>>

\* iter(self.download_frames.values())
LoopIter ==
    /\ loop.pc = "iter"
    /\ loop' = [loop EXCEPT !.pc = "next", !.used = DictUsed(download_frames),
                            !.len = DictUsed(download_frames), !.pos = 0]
    /\ UNCHANGED LoopFrame

\* what next() on the iterator does: "raise", "stop" or the entry it yields.
\* why records which way the size changed ("dictionary changed size during
\* iteration") or that an unexpected entry turned up ("dictionary keys
\* changed during iteration").
IterNext(d, it) ==
    LET rest == {i \in Live(d) : i > it.pos}
    IN  IF it.used # DictUsed(d)
        THEN [what |-> "raise", at |-> 0,
              why |-> IF DictUsed(d) < it.used THEN "shrank" ELSE "grew"]
        ELSE IF rest = {} THEN [what |-> "stop", at |-> 0, why |-> ""]
        ELSE IF it.len = 0 THEN [what |-> "raise", at |-> 0, why |-> "keys"]
        ELSE [what |-> "yield", at |-> CHOOSE j \in rest : \A k \in rest : j <= k,
              why |-> ""]

\* next(), then self.root.after(0, frame.update_display); an exception ends
\* the loop (except: break)
LoopNext ==
    /\ loop.pc = "next"
    /\ LET r == IterNext(download_frames, loop)
       IN  loop' = CASE r.what = "raise" -> [loop EXCEPT !.pc = "dead", !.raised = r.why]
                     [] r.what = "stop"  -> [loop EXCEPT !.pc = "status"]
                     [] r.what = "yield" -> [loop EXCEPT !.pos = r.at, !.len = @ - 1]
    /\ UNCHANGED LoopFrame

\* self.root.after(0, self.update_status); time.sleep(0.5)
LoopSleep ==
    /\ loop.pc = "status"
    /\ loop' = [loop EXCEPT !.pc = "iter"]
    /\ UNCHANGED LoopFrame

UpdateLoop == LoopIter \/ LoopNext \/ LoopSleep

(***************************************************************************)
(* DownloadProgressFrame.update_display (main_app.py:355-389), which the   *)
(* update loop schedules on the main thread for a frame of                 *)
(* download_frames.  Each read of a field of download_item is a step, so   *)
(* that worker steps can fall between two reads.  view.text, view.color,   *)
(* view.bar and view.details are what the widgets show.                    *)
(***************************************************************************)
\* status_colors.get(status, "gray"), lines 357-367
StatusColor(status) ==
    CASE status = "pending" -> "orange"
      [] status = "downloading" -> "lightblue"
      [] status = "completed" -> "lightgreen"
      [] status = "failed" -> "lightcoral"
      [] OTHER -> "gray"

ViewFrame == <<items, pc, cur, exc, hist, downloads, download_frames, ctl, loop, now,
               options, settings, ydl_opts, settings_file, saved, cli, preview>>

ViewGoto(place) == view' = [view EXCEPT !.pc = place]

\* the callback starts; line 366: text=self.download_item.status.title()
ViewBegin ==
    /\ MainThreadFree
    /\ \E f \in DictVals(download_frames) :
         view' = [view EXCEPT !.pc = "color", !.of = f, !.text = items[f].status]
    /\ UNCHANGED ViewFrame

\* line 367
ViewColor ==
    /\ view.pc = "color"
    /\ view' = [view EXCEPT !.pc = "bar", !.color = StatusColor(items[view.of].status)]
    /\ UNCHANGED ViewFrame

\* line 371
ViewBar ==
    /\ view.pc = "bar"
    /\ view' = [view EXCEPT !.pc = "is_downloading", !.bar = items[view.of].progress]
    /\ UNCHANGED ViewFrame

\* lines 374, 382, 384: each test reads status anew
ViewTest ==
    /\ \/ /\ view.pc = "is_downloading"
          /\ ViewGoto(IF items[view.of].status = "downloading"
                      THEN "downloading" ELSE "is_completed")
       \/ /\ view.pc = "is_completed"
          /\ ViewGoto(IF items[view.of].status = "completed"
                      THEN "completed" ELSE "is_failed")
       \/ /\ view.pc = "is_failed"
          /\ ViewGoto(IF items[view.of].status = "failed" THEN "failed" ELSE "preparing")
    /\ UNCHANGED ViewFrame

\* lines 375-381, 383, 385, 387: the details text
ViewDetails ==
    /\ LET item == items[view.of]
       IN  \/ /\ view.pc = "downloading"
              /\ view' = [view EXCEPT !.pc = "configure",
                              !.details = <<"downloading", item.progress, item.speed,
                                            item.eta, item.file_size>>]
           \/ /\ view.pc = "completed"
              /\ view' = [view EXCEPT !.pc = "configure",
                              !.details = <<"Completed", item.filename>>]
           \/ /\ view.pc = "failed"
              /\ view' = [view EXCEPT !.pc = "configure",
                              !.details = <<"Failed", item.error>>]
           \/ /\ view.pc = "preparing"
              /\ view' = [view EXCEPT !.pc = "configure", !.details = <<"Preparing...">>]
    /\ UNCHANGED ViewFrame

\* line 389; the callback returns
ViewConfigure ==
    /\ view.pc = "configure"
    /\ ViewGoto("idle")
    /\ UNCHANGED ViewFrame

UpdateDisplay == ViewBegin \/ ViewColor \/ ViewBar \/ ViewTest \/ ViewDetails \/ ViewConfigure

(***************************************************************************)
(* The application: VideoDownloaderGUI.__init__ (main_app.py:398-419)      *)
(* leaves both registries empty and the update loop started.               *)
(***************************************************************************)
AllSettings == {[DefaultSettings EXCEPT !.audio_only = b] : b \in BOOLEAN}

\* the decimal numbers of up to n digits, as character sequences
HeightDigits == {"0", "2", "7"}

RECURSIVE DigitStrings(_)
DigitStrings(n) ==
    IF n = 0 THEN {}
    ELSE {<<c>> : c \in HeightDigits}
         \cup {h \o <<c>> : h \in DigitStrings(n - 1), c \in HeightDigits}

\* quality strings "<N>p"
HeightQualities == {h \o <<"p">> : h \in DigitStrings(MaxHeightDigits)}

Qualities == {QBest, QWorst} \cup HeightQualities

\* the containers of the settings window's menu (main_app.py:1268), and one
\* no branch names
Containers == {"mp4", "webm", "mkv", "any", "avi"}

\* settings with every quality, container and audio_only flag
FormatSettings ==
    {[DefaultSettings EXCEPT !.quality = q, !.format_preference = f, !.audio_only = b] :
        q \in Qualities, f \in Containers, b \in BOOLEAN}

\* the options dicts the application hands to start_download under settings
\* st: add_selected_to_queue (main_app.py:727-746), download_selected
\* (272), download_best (276)
QueueOptions(st) ==
    {video_options(st), AudioOptions, MetadataOptions, FormatIdOptions, BestOptions}

(***************************************************************************)
(* The content preview (main_app.py:806-859).  The analysis hands the      *)
(* library's result to _show_content_preview on the main thread: a dict    *)
(* with an optional _type, an optional list of entries (an entry can be    *)
(* None), and the fields of a single video.                                *)
(***************************************************************************)
NoneEntry == [none |-> TRUE, url |-> "", has_title |-> FALSE, title |-> <<>>]
Entry(url, has_title) ==
    [none |-> FALSE, url |-> url, has_title |-> has_title,
     title |-> IF has_title THEN <<"Entry">> ELSE <<>>]

TheEntries == {NoneEntry, Entry("https://example.com/watch?v=2", TRUE),
               Entry("https://example.com/watch?v=3", FALSE)}

RECURSIVE EntryLists(_)
EntryLists(n) ==
    IF n = 0 THEN {<<>>}
    ELSE EntryLists(n - 1)
         \cup {Append(l, e) : l \in {x \in EntryLists(n - 1) : Len(x) = n - 1},
                               e \in TheEntries}

\* _type is "" when the key is absent
ContentInfo(type, entries, has_webpage_url, has_title) ==
    [type |-> type, entries |-> entries, has_webpage_url |-> has_webpage_url,
     has_title |-> has_title]

AllInfos ==
    {ContentInfo(ty, l, w, h) :
        ty \in {"", "video", "playlist"}, l \in EntryLists(MaxEntries),
        w \in BOOLEAN, h \in BOOLEAN}

NoInfo == ContentInfo("none", <<>>, FALSE, FALSE)

\* warning: the title of the last messagebox add_selected_to_queue showed;
\* analyses: the analyze_url calls so far, each with its url and the place
\* of its thread; posted: the callbacks the threads handed to root.after, in
\* the order the main thread will run them
NoPreview ==
    [data |-> NoInfo, items |-> <<>>, content_type |-> <<>>, warning |-> "",
     analyses |-> <<>>, posted |-> <<>>]

PreviewItem(url, title) == [url |-> url, title |-> title, selected |-> TRUE, type |-> "video"]

\* _setup_video_preview (833-843)
VideoPreview(video_info) ==
    <<PreviewItem(IF video_info.has_webpage_url THEN "webpage_url" ELSE "url",
                  IF video_info.has_title THEN <<"Title">> ELSE <<"Unknown", "Title">>)>>

\* _setup_playlist_preview (845-859): the entries that are not None, from
\* the i-th on
RECURSIVE PlaylistPreview(_, _)
RECURSIVE RequestsForAll(_, _, _)
RECURSIVE RequestsForFirstKind(_, _, _)
PlaylistPreview(entries, i) ==
    IF i > Len(entries) THEN <<>>
    ELSE (IF entries[i].none THEN <<>>
          ELSE <<PreviewItem(entries[i].url,
                             IF entries[i].has_title THEN entries[i].title
                             ELSE <<"Video", i>>)>>)
         \o PlaylistPreview(entries, i + 1)

\* a test that takes a single entry for a collection already
ContentTypeFromOne(content_info) ==
    LET is_playlist == content_info.type = "playlist"
        entry_count == Len(content_info.entries)
    IN  IF is_playlist /\ entry_count >= 1 THEN <<"Playlist", entry_count>>
        ELSE IF entry_count >= 1 THEN <<"Channel/Collection", entry_count>>
        ELSE <<"Single Video">>

\* lines 816-826: the label
ContentType(content_info) ==
    LET is_playlist == content_info.type = "playlist"
        entry_count == Len(content_info.entries)
    IN  IF is_playlist /\ entry_count > 1 THEN <<"Playlist", entry_count>>
        ELSE IF entry_count > 1 THEN <<"Channel/Collection", entry_count>>
        ELSE <<"Single Video">>

\* _show_content_preview (806-831): what it makes of preview p
Show(p, content_info) ==
    LET content_type == ContentType(content_info)
    IN  [p EXCEPT !.data = content_info,
                  !.items = IF content_type = <<"Single Video">>
                            THEN VideoPreview(content_info)
                            ELSE PlaylistPreview(content_info.entries, 1),
                  !.content_type = content_type]

\* _show_content_preview called with a result out of Infos
ShowContentPreview(Infos) ==
    /\ MainThreadFree
    /\ \E content_info \in Infos : preview' = Show(preview, content_info)
    /\ UNCHANGED <<items, pc, cur, exc, hist, downloads, download_frames, ctl, loop, now,
                   options, settings, ydl_opts, view, settings_file, saved, cli>>

PreviewFrame == <<items, pc, cur, exc, hist, downloads, download_frames, ctl, loop, now,
                  options, settings, ydl_opts, view, settings_file, saved, cli>>

\* the URLs the user analyses, and what the library returns for each
VideoUrl == "https://example.com/watch?v=1"
PlaylistUrl == "https://example.com/playlist?list=1"
AnalysedUrls == {VideoUrl, PlaylistUrl}

AnalysisResult(url) ==
    IF url = VideoUrl THEN ContentInfo("video", <<>>, TRUE, TRUE)
    ELSE ContentInfo("playlist", <<Entry("https://example.com/watch?v=2", TRUE),
                                   Entry("https://example.com/watch?v=3", FALSE)>>,
                     TRUE, TRUE)

\* analyze_url (685-702) with a valid URL in the entry: the label says
\* "Analyzing..." and a thread is started for the URL
AnalyzeUrl(Urls, limit) ==
    /\ MainThreadFree
    /\ Len(preview.analyses) < limit
    /\ \E url \in Urls :
         preview' = [preview EXCEPT
                        !.content_type = <<"Analyzing...">>,
                        !.analyses = Append(@, [url |-> url, pc |-> "running"])]
    /\ UNCHANGED PreviewFrame

\* self.root.after(0, ...) in the thread of analysis i (801, 804)
Post(p, i, what) ==
    [p EXCEPT !.analyses[i].pc = "posted",
              !.posted = Append(@, [of |-> i, what |-> what])]

\* _analyze_content_worker (787-804): extract_info returns and the preview
\* is posted to the main thread, or it raises and the error label is posted
AnalysisEnds ==
    /\ \E i \in 1..Len(preview.analyses), what \in {"preview", "error"} :
         /\ preview.analyses[i].pc = "running"
         /\ preview' = Post(preview, i, what)
    /\ UNCHANGED PreviewFrame

\* The main thread runs the oldest posted callback.  The error callback is
\* a lambda that reads `e` of the except clause, which the thread unbinds
\* when it leaves the clause: the label is set if the callback runs before
\* that, and the callback raises NameError, changing nothing, if after.
RunPosted ==
    /\ MainThreadFree
    /\ preview.posted # <<>>
    /\ LET call == Head(preview.posted)
           ran == [preview EXCEPT !.posted = Tail(@)]
       IN  IF call.what = "preview"
           THEN preview' = Show([ran EXCEPT !.analyses[call.of].pc = "done"],
                                AnalysisResult(preview.analyses[call.of].url))
           ELSE LET failed == [ran EXCEPT !.analyses[call.of].pc = "failed"]
                IN  \/ preview' = [failed EXCEPT !.content_type = <<"Error">>]
                    \/ preview' = failed
    /\ UNCHANGED PreviewFrame

\* _toggle_item_selection (919-922): the checkbox of item i is clicked
ToggleItemSelection ==
    /\ MainThreadFree
    /\ \E i \in 1..Len(preview.items) :
         preview' = [preview EXCEPT !.items[i].selected = ~@]
    /\ UNCHANGED <<items, pc, cur, exc, hist, downloads, download_frames, ctl, loop, now,
                   options, settings, ydl_opts, view, settings_file, saved, cli>>

Request(url, o) == [url |-> url, options |-> o]

\* lines 725-746 for one item: a call for each kind that is ticked
RequestsFor(item, kinds, st) ==
    (IF kinds.video THEN <<Request(item.url, video_options(st))>> ELSE <<>>)
        \o (IF kinds.audio THEN <<Request(item.url, AudioOptions)>> ELSE <<>>)
        \o (IF kinds.metadata THEN <<Request(item.url, MetadataOptions)>> ELSE <<>>)

\* lines 725-746 with `elif` for the second and third kind
RequestsForFirstKind(selected_items, kinds, st) ==
    IF selected_items = <<>> THEN <<>>
    ELSE LET item == Head(selected_items)
         IN  (IF kinds.video THEN <<Request(item.url, video_options(st))>>
              ELSE IF kinds.audio THEN <<Request(item.url, AudioOptions)>>
              ELSE IF kinds.metadata THEN <<Request(item.url, MetadataOptions)>>
              ELSE <<>>)
             \o RequestsForFirstKind(Tail(selected_items), kinds, st)

\* lines 724-746: the calls for all selected items, in order
RequestsForAll(selected_items, kinds, st) ==
    IF selected_items = <<>> THEN <<>>
    ELSE RequestsFor(Head(selected_items), kinds, st)
             \o RequestsForAll(Tail(selected_items), kinds, st)

IsSelected(item) == item.selected

\* add_selected_to_queue (704-722): the three tests, each ending the call
\* with a messagebox, and the checkboxes read
AddSelectedBegin(limit) ==
    /\ MainThreadFree
    /\ \E kinds \in [video : BOOLEAN, audio : BOOLEAN, metadata : BOOLEAN] :
         LET selected_items == SelectSeq(preview.items, IsSelected)
             requests == RequestsForAll(selected_items, kinds, settings)
         IN  IF preview.items = <<>>
             THEN preview' = [preview EXCEPT !.warning = "No Content"] /\ ctl' = ctl
             ELSE IF selected_items = <<>>
             THEN preview' = [preview EXCEPT !.warning = "No Selection"] /\ ctl' = ctl
             ELSE IF kinds = NoKinds
             THEN preview' = [preview EXCEPT !.warning = "No Options"] /\ ctl' = ctl
             ELSE /\ Len(items) + Len(requests) <= limit
                  /\ ctl' = [Idle EXCEPT !.pc = "add", !.requests = requests,
                                         !.kinds = kinds, !.base = Len(items)]
                  /\ preview' = preview
    /\ UNCHANGED <<items, pc, cur, exc, hist, downloads, download_frames, loop, now,
                   options, settings, ydl_opts, view, settings_file, saved, cli>>

\* add_selected_to_queue (724-749): one start_download call per step, then
\* select_no_items (772-777)
AddSelectedStep(clk) ==
    /\ ctl.pc = "add"
    /\ IF ctl.pos < Len(ctl.requests)
       THEN \E addr \in NewAddrs, tm \in now..clk :
              LET request == ctl.requests[ctl.pos + 1]
                  item == NewDownloadItem(request.url, tm, addr)
                  n == Len(items) + 1
              IN  /\ items' = Append(items, item)
                  /\ now' = tm
                  /\ downloads' = DictSet(downloads, item.id, n)
                  /\ download_frames' = DictSet(download_frames, item.id, n)
                  /\ pc' = Append(pc, <<"start", 0>>)
                  /\ cur' = Append(cur, NoPayload)
                  /\ exc' = Append(exc, NoExc)
                  /\ hist' = Append(hist, NoHist)
                  /\ options' = Append(options, request.options)
                  /\ ydl_opts' = Append(ydl_opts, NoFormat)
                  /\ ctl' = [ctl EXCEPT !.pos = @ + 1]
                  /\ preview' = preview
       ELSE /\ ctl' = Idle
            /\ preview' = [preview EXCEPT
                              !.items = [i \in 1..Len(preview.items) |->
                                           [preview.items[i] EXCEPT !.selected = FALSE]]]
            /\ UNCHANGED <<items, pc, cur, exc, hist, downloads, download_frames, now,
                           options, ydl_opts>>
    /\ UNCHANGED <<loop, settings, view, settings_file, saved, cli>>

(***************************************************************************)
(* The settings file: a JSON object.  Its text is kept as the literal of   *)
(* each member; a literal is a sequence of pieces (true, false, digits, or *)
(* a quoted string with its escapes).  output_dir and quality are strings  *)
(* kept as sequences of pieces, format_preference is a whole word.         *)
(***************************************************************************)
SettingKeys == DOMAIN DefaultSettings

KeyKind(key) ==
    CASE key \in {"output_dir", "quality"} -> "str"
      [] key = "format_preference" -> "word"
      [] key = "concurrent_downloads" -> "int"
      [] OTHER -> "bool"

\* json's string escapes: a quote or a backslash gets a backslash before it
RECURSIVE JsonEscape(_)
JsonEscape(str) ==
    IF str = <<>> THEN <<>>
    ELSE (IF Head(str) \in {"\"", "\\"} THEN <<"\\", Head(str)>> ELSE <<Head(str)>>)
         \o JsonEscape(Tail(str))

RECURSIVE JsonUnescape(_)
JsonUnescape(text) ==
    IF text = <<>> THEN <<>>
    ELSE IF Head(text) = "\\" /\ Len(text) >= 2
         THEN <<text[2]>> \o JsonUnescape(SubSeq(text, 3, Len(text)))
         ELSE <<Head(text)>> \o JsonUnescape(Tail(text))

JsonString(str) == <<"\"">> \o JsonEscape(str) \o <<"\"">>

\* json.dump of one value
JsonLiteral(key, v) ==
    CASE KeyKind(key) = "bool" -> IF v THEN <<"true">> ELSE <<"false">>
      [] KeyKind(key) = "int" -> FormatNat(v)
      [] KeyKind(key) = "word" -> JsonString(<<v>>)
      [] OTHER -> JsonString(v)

\* json.load of one literal
JsonValue(key, literal) ==
    CASE KeyKind(key) = "bool" -> literal = <<"true">>
      [] KeyKind(key) = "int" -> DecimalValue(literal, 0)
      [] KeyKind(key) = "word" ->
           JsonUnescape(SubSeq(literal, 2, Len(literal) - 1))[1]
      [] OTHER -> JsonUnescape(SubSeq(literal, 2, Len(literal) - 1))

\* json.dump(self.settings, f, indent=2), line 450
JsonDump(st) == [key \in DOMAIN st |-> JsonLiteral(key, st[key])]

\* json.load(f), line 438
JsonLoad(members) == [key \in DOMAIN members |-> JsonValue(key, members[key])]

\* dict.update, line 439
Update(d, e) ==
    [key \in DOMAIN d \cup DOMAIN e |-> IF key \in DOMAIN e THEN e[key] ELSE d[key]]

\* the file does not exist; it holds a JSON object; it cannot be parsed
\* (json.load raises); it cannot be opened (open raises); it holds JSON that
\* is no object, such as null or a number (dict.update raises).  error is
\* the class of what is raised inside load_settings' try block.
NoFile == [exists |-> FALSE, ok |-> FALSE, members |-> <<>>, error |-> ""]
JsonFile(members) == [exists |-> TRUE, ok |-> TRUE, members |-> members, error |-> ""]
CorruptFile == [exists |-> TRUE, ok |-> FALSE, members |-> <<>>, error |-> "JSONDecodeError"]
UnreadableFile == [exists |-> TRUE, ok |-> FALSE, members |-> <<>>, error |-> "PermissionError"]
NoObjectFile == [exists |-> TRUE, ok |-> FALSE, members |-> <<>>, error |-> "TypeError"]

\* the classes `except Exception` catches, of those the model raises
\* (main_app.py:440, cli.py:31, cli.py:150)
ExceptionClasses ==
    {"JSONDecodeError", "PermissionError", "TypeError", "OSError", "DownloadError"}

\* e is raised inside a try block with an `except Exception`: what leaves it
Escaped(e) == IF e \in ExceptionClasses THEN "" ELSE e

\* what load_settings' try block raises (434-439)
LoadError(file) == IF file.exists THEN file.error ELSE ""

\* a load_settings that lets the defaults override the file
load_settings_defaults_win(file) ==
    IF file.exists /\ file.ok
    THEN Update(JsonLoad(file.members), DefaultSettings)
    ELSE DefaultSettings

\* a load_settings that returns what the file holds and nothing else
load_settings_file_only(file) ==
    IF file.exists /\ file.ok
    THEN JsonLoad(file.members)
    ELSE DefaultSettings

\* load_settings (main_app.py:421-443); what the try block raises is caught
\* and leaves the defaults
load_settings(file) ==
    IF file.exists /\ file.ok
    THEN Update(DefaultSettings, JsonLoad(file.members))
    ELSE DefaultSettings

\* the file an earlier run left for settings st: none when they are the
\* defaults, else what save_settings wrote
FileFor(st) == IF st = DefaultSettings THEN NoFile ELSE JsonFile(JsonDump(st))

\* raised: the exception that left the last load_settings call
NoSave == [how |-> "none", value |-> DefaultSettings, reloaded |-> FALSE, raised |-> ""]

(***************************************************************************)
(* The command-line program (cli.py), `download` command.  It is a process *)
(* of its own and shares the settings file with the application.           *)
(***************************************************************************)
\* cli.py:21-26
CliDefaults ==
    [output_dir |-> DefaultSettings.output_dir,
     quality |-> QBest,
     format_preference |-> "mp4",
     audio_only |-> FALSE]

\* cli.py:18-33
cli_load_settings(file) ==
    IF file.exists /\ file.ok
    THEN Update(CliDefaults, JsonLoad(file.members))
    ELSE CliDefaults

\* cli.py:36-61
build_format_string(quality, fmt, audio_only) ==
    IF audio_only
    THEN CASE fmt = "mp4" -> <<"ba", "[ext=m4a]", "/", "ba">>
           [] fmt = "webm" -> <<"ba", "[ext=webm]", "/", "ba">>
           [] OTHER -> <<"ba", "/", "b">>
    ELSE IF quality = QBest
    THEN CASE fmt = "mp4" ->
                <<"bv*", "[ext=mp4]">> \o Cap1080 \o <<"+", "ba", "[ext=m4a]", "/", "bv*">>
                    \o Cap1080 \o <<"+", "ba", "/", "b">> \o Cap1080
           [] fmt = "webm" ->
                <<"bv*", "[ext=webm]", "+", "ba", "[ext=webm]", "/", "bv*", "+", "ba">>
           [] fmt = "mkv" -> <<"bv*", "+", "ba", "/", "b">>
           [] OTHER ->
                <<"bv*", "[ext=mp4]", "+", "ba", "[ext=m4a]", "/", "bv*", "+", "ba", "/", "b">>
    ELSE IF quality = QWorst THEN <<"wv*", "+", "wa", "/", "w">>
    ELSE LET height == QualityNum(quality)
         IN  CASE fmt = "mp4" ->
                    <<"bv*">> \o HeightFilter(height)
                        \o <<"[ext=mp4]", "+", "ba", "[ext=m4a]", "/", "bv*">>
                        \o HeightFilter(height) \o <<"+", "ba">>
               [] fmt = "webm" ->
                    <<"bv*">> \o HeightFilter(height)
                        \o <<"[ext=webm]", "+", "ba", "[ext=webm]", "/", "bv*">>
                        \o HeightFilter(height) \o <<"+", "ba">>
               [] OTHER -> <<"bv*">> \o HeightFilter(height) \o <<"+", "ba">>

\* the parsed arguments of `download`; an option not given is None, which
\* `or` treats like the empty string
CliArgs(quality, format, audio_only) ==
    [quality |-> quality, format |-> format, audio_only |-> audio_only]

NoArgs == CliArgs(<<>>, "", FALSE)

\* --quality, --format and --audio-only as argparse admits them
\* (cli.py:138-141)
SomeArgs ==
    {NoArgs,
     CliArgs(<<"7", "2", "0", "p">>, "webm", FALSE),
     CliArgs(<<>>, "any", FALSE),
     CliArgs(QBest, "", TRUE)}

\* command: the subcommand; settings: cmd_download's local; error: the
\* exception main() caught and reported on standard error; escaped: the
\* exception that left main()
NoCli ==
    [pc |-> "idle", command |-> "", args |-> NoArgs, settings |-> CliDefaults,
     ydl_opts |-> NoFormat, exit_code |-> 0, error |-> "", escaped |-> ""]

\* cli.py:88-90
CliQuality(args, st) == IF args.quality # <<>> THEN args.quality ELSE st.quality
CliFmt(args, st) == IF args.format # "" THEN args.format ELSE st.format_preference
CliAudioOnly(args, st) == args.audio_only \/ st.audio_only

\* cli.py:101-110: the format entries of ydl_opts
CliFormat(args, st) ==
    LET quality == CliQuality(args, st)
        fmt == CliFmt(args, st)
        audio_only == CliAudioOnly(args, st)
    IN  YdlFormat(build_format_string(quality, fmt, audio_only),
                  IF ~audio_only /\ fmt \in {"mp4", "webm", "mkv"} THEN fmt ELSE "")

CliFrame == <<items, pc, cur, exc, hist, downloads, download_frames, ctl, loop, now,
              options, settings, ydl_opts, view, settings_file, saved, preview>>

\* The exit status of an interpreter that an unhandled KeyboardInterrupt
\* ends: killed by SIGINT (130 to the shell), or 1 with older interpreters.
InterruptCodes == {1, 130}

\* what the library's calls raise: nothing, a DownloadError, or the
\* KeyboardInterrupt of a user who stops the program
LibraryRaises == {"", "DownloadError", "KeyboardInterrupt"}

\* a main() that reports what it caught and still ends with status 0
MainEndsQuietly(c, raised) ==
    IF raised = "" THEN {[c EXCEPT !.pc = "exit", !.exit_code = 0]}
    ELSE IF Escaped(raised) = ""
    THEN {[c EXCEPT !.pc = "exit", !.exit_code = 0, !.error = raised]}
    ELSE {[c EXCEPT !.pc = "exit", !.exit_code = code, !.escaped = raised] :
             code \in InterruptCodes}

\* main() once the command returned or raised (cli.py:145-152): `except
\* Exception` prints to standard error and calls sys.exit(1); anything else
\* leaves main()
MainEnds(c, raised) ==
    IF raised = "" THEN {[c EXCEPT !.pc = "exit", !.exit_code = 0]}
    ELSE IF Escaped(raised) = ""
    THEN {[c EXCEPT !.pc = "exit", !.exit_code = 1, !.error = raised]}
    ELSE {[c EXCEPT !.pc = "exit", !.exit_code = code, !.escaped = raised] :
             code \in InterruptCodes}

\* main() with the download command, cmd_download as far as ydl_opts
\* (cli.py:84-110); mkdir may raise OSError
CliDownload(Args) ==
    /\ cli.pc = "idle"
    /\ \E args \in Args :
         LET called == [cli EXCEPT !.command = "download", !.args = args]
             raised == Escaped(LoadError(settings_file))
             loaded == [called EXCEPT !.settings = cli_load_settings(settings_file)]
         IN  IF raised # "" THEN cli' \in MainEnds(called, raised)
             ELSE \/ cli' = [loaded EXCEPT !.pc = "transfer",
                                           !.ydl_opts = CliFormat(args, loaded.settings)]
                  \/ cli' \in MainEnds(loaded, "OSError")
    /\ UNCHANGED CliFrame

\* cli.py:116-121: extract_info and download return, or one of them raises
CliTransfer ==
    /\ cli.pc = "transfer"
    /\ \E raised \in LibraryRaises : cli' \in MainEnds(cli, raised)
    /\ UNCHANGED CliFrame

\* main() with the info command (cli.py:64-79): extract_info returns or
\* raises; a description of None makes the slice raise TypeError
CliInfo ==
    /\ cli.pc = "idle"
    /\ \E raised \in LibraryRaises \cup {"TypeError"} :
         cli' \in MainEnds([cli EXCEPT !.command = "info"], raised)
    /\ UNCHANGED CliFrame

\* VideoDownloaderGUI.__init__ (main_app.py:398-419), the settings file
\* being `file`
StartWith(file) ==
    /\ items = <<>>
    /\ pc = <<>>
    /\ cur = <<>>
    /\ exc = <<>>
    /\ hist = <<>>
    /\ options = <<>>
    /\ downloads = <<>>
    /\ download_frames = <<>>
    /\ ctl = Idle
    /\ loop = LoopInit
    /\ now = 0
    /\ settings = load_settings(file)
    /\ ydl_opts = <<>>
    /\ view = NoView
    /\ settings_file = file
    /\ saved = [NoSave EXCEPT !.raised = Escaped(LoadError(file))]
    /\ cli = NoCli
    /\ preview = NoPreview

InitWith(Settings) == \E st \in Settings : StartWith(FileFor(st))

TheUrls == {"https://example.com/watch?v=1"}

Init == InitWith({DefaultSettings})

Next ==
    \/ StartDownload(MaxTasks, TheUrls, {VideoOptions}, MaxQueueClock)
    \/ FrameRemove
    \/ ClearCompletedBegin
    \/ ClearCompletedScan
    \/ ClearCompletedRemove
    \/ \E t \in 1..MaxTasks : Worker(t, CorePayloads, MaxQueueCallbacks, {TRUE}, MaxQueueClock)
    \/ UpdateLoop

Spec == Init /\ [][Next]_vars

(***************************************************************************)
(* One download followed through every payload the library can deliver and *)
(* every options dict the application builds.                              *)
(***************************************************************************)
WorkerInit == InitWith(AllSettings)

WorkerNext ==
    \/ StartDownload(1, TheUrls, AllOptions, MaxClock)
    \/ Worker(1, AllPayloads, MaxCallbacks, BOOLEAN, MaxClock)

WorkerSpec == WorkerInit /\ [][WorkerNext]_vars

FairWorkerSpec == WorkerSpec /\ WF_vars(Worker(1, AllPayloads, MaxCallbacks, BOOLEAN, MaxClock))

(***************************************************************************)
(* Several downloads side by side: start_download, the frames' remove      *)
(* buttons and the workers, in transfers during which the library calls    *)
(* progress_hook no time.                                                  *)
(***************************************************************************)
SilentWorker(t, clk) ==
    \/ WorkerStart(t)
    \/ Mkdir(t)
    \/ ResolveOptions(t)
    \/ Extract(t, {TRUE})
    \/ DownloadEnds(t)
    \/ PostCheck(t)
    \/ PostStep(t, clk)
    \/ ExcStep(t, clk)

QueueNext ==
    \/ StartDownload(MaxTasks, TheUrls, {VideoOptions}, MaxQueueClock)
    \/ FrameRemove
    \/ \E t \in 1..MaxTasks : SilentWorker(t, MaxQueueClock)

QueueSpec == Init /\ [][QueueNext]_vars

(***************************************************************************)
(* The same under a settings file that allows one download at a time.      *)
(***************************************************************************)
OneAtATime == JsonFile(JsonDump([concurrent_downloads |-> 1]))

StartInit == StartWith(OneAtATime)

StartSpec == StartInit /\ [][QueueNext]_vars

(***************************************************************************)
(* The same with clear_completed.                                          *)
(***************************************************************************)
RegistryNext ==
    \/ StartDownload(MaxTasks, TheUrls, {VideoOptions}, MaxQueueClock)
    \/ FrameRemove
    \/ ClearCompletedBegin
    \/ ClearCompletedScan
    \/ ClearCompletedRemove
    \/ \E t \in 1..MaxTasks : SilentWorker(t, MaxQueueClock)

RegistrySpec == Init /\ [][RegistryNext]_vars

(***************************************************************************)
(* One download as far as the choice of its format, under every settings   *)
(* value and every options dict the application builds.                    *)
(***************************************************************************)
ResolveInit == InitWith(FormatSettings)

ResolveNext ==
    \/ StartDownload(1, TheUrls, QueueOptions(settings), MaxQueueClock)
    \/ WorkerStart(1)
    \/ Mkdir(1)
    \/ ResolveOptions(1)

ResolveSpec == ResolveInit /\ [][ResolveNext]_vars

(***************************************************************************)
(* The format selectors of the application and of the command-line         *)
(* program, under every settings value.                                    *)
(***************************************************************************)
SelectorNext ==
    \/ StartDownload(1, TheUrls, {video_options(settings), BestOptions}, MaxQueueClock)
    \/ WorkerStart(1)
    \/ Mkdir(1)
    \/ ResolveOptions(1)
    \/ CliDownload(SomeArgs)
    \/ CliTransfer

SelectorSpec == ResolveInit /\ [][SelectorNext]_vars

(***************************************************************************)
(* The previews of every analysis result.                                  *)
(***************************************************************************)
PreviewNext == ShowContentPreview(AllInfos)

PreviewSpec == Init /\ [][PreviewNext]_vars

(***************************************************************************)
(* The preview and the queue: playlists are analysed, items are ticked and *)
(* unticked, and the selection is added to the queue.                      *)
(***************************************************************************)
\* a single video; a playlist of two videos around an entry that is None; a
\* playlist that lists one video twice
QueueInfos ==
    {ContentInfo("video", <<>>, TRUE, TRUE),
     ContentInfo("playlist", <<Entry("https://example.com/watch?v=2", TRUE), NoneEntry,
                               Entry("https://example.com/watch?v=3", FALSE)>>, TRUE, TRUE),
     ContentInfo("playlist", <<Entry("https://example.com/watch?v=2", TRUE),
                               Entry("https://example.com/watch?v=2", TRUE)>>, TRUE, TRUE)}

\* The queue takes two tasks more than elsewhere, for two items of two
\* kinds.  One selection is queued; the button can be pressed again when
\* nothing is selected.
AddNext ==
    \/ ShowContentPreview(QueueInfos)
    \/ ToggleItemSelection
    \/ (items = <<>> \/ SelectSeq(preview.items, IsSelected) = <<>>)
           /\ AddSelectedBegin(MaxTasks + 2)
    \/ AddSelectedStep(MaxQueueClock)

AddSpec == Init /\ [][AddNext]_vars

(***************************************************************************)
(* Analyses of URLs, several at a time.                                    *)
(***************************************************************************)
AnalysisNext ==
    \/ AnalyzeUrl(AnalysedUrls, MaxAnalyses)
    \/ AnalysisEnds
    \/ RunPosted

AnalysisSpec == Init /\ [][AnalysisNext]_vars

(***************************************************************************)
(* The settings dialog and the next run of the application.                *)
(***************************************************************************)
\* what the dialog's widgets hold when Save is pressed (1361-1368)
Dirs == {DefaultSettings.output_dir, <<"C:", "\\", "Videos">>, <<"my ", "\"", "clips", "\"">>}

DialogValues ==
    {[output_dir |-> d, quality |-> q, format_preference |-> f, audio_only |-> a,
      include_subtitles |-> b, organize_in_folders |-> b, save_metadata |-> b] :
        d \in Dirs, q \in {QBest, <<"7", "2", "0", "p">>}, f \in {"mp4", "any"},
        a \in BOOLEAN, b \in BOOLEAN}

\* the files an earlier run, or the user, left behind
OnlyConcurrency == [concurrent_downloads |-> 12]
StartFiles == {NoFile, CorruptFile, JsonFile(JsonDump(OnlyConcurrency))}

\* SettingsWindow.save (1361-1372) with save_settings (445-452): open(.., 'w')
\* raises and leaves the file as it was; or the file is truncated and the
\* whole object is written; or the write breaks off part-way.  The failures
\* are printed and otherwise ignored.
SaveSettings(Values) ==
    /\ MainThreadFree
    /\ \E dialog \in Values, how \in {"written", "not opened", "broken off"} :
         /\ settings' = Update(settings, dialog)
         /\ settings_file' = CASE how = "written" -> JsonFile(JsonDump(settings'))
                                [] how = "not opened" -> settings_file
                                [] OTHER -> CorruptFile
         /\ saved' = [how |-> how, value |-> settings', reloaded |-> FALSE,
                       raised |-> saved.raised]
    /\ UNCHANGED <<items, pc, cur, exc, hist, downloads, download_frames, ctl, loop, now,
                   options, ydl_opts, view, cli, preview>>

\* the application is closed and started again: __init__ (395-418) reads the
\* settings file anew
Restart ==
    /\ MainThreadFree
    /\ items' = <<>>
    /\ pc' = <<>>
    /\ cur' = <<>>
    /\ exc' = <<>>
    /\ hist' = <<>>
    /\ options' = <<>>
    /\ downloads' = <<>>
    /\ download_frames' = <<>>
    /\ ctl' = Idle
    /\ loop' = LoopInit
    /\ now' = now
    /\ settings' = load_settings(settings_file)
    /\ ydl_opts' = <<>>
    /\ view' = NoView
    /\ settings_file' = settings_file
    /\ saved' = [saved EXCEPT !.reloaded = TRUE,
                               !.raised = Escaped(LoadError(settings_file))]
    /\ cli' = NoCli
    /\ preview' = NoPreview

RoundTripInit == \E file \in StartFiles : StartWith(file)

RoundTripNext == SaveSettings(DialogValues) \/ Restart

RoundTripSpec == RoundTripInit /\ [][RoundTripNext]_vars

(***************************************************************************)
(* The application and the command-line program started on every kind of   *)
(* settings file: an object holding any subset of the recognized keys and  *)
(* of a key nobody reads, no file, and the files that make the try block   *)
(* raise.                                                                  *)
(***************************************************************************)
NonDefault ==
    [output_dir |-> <<"C:", "\\", "Videos">>, quality |-> <<"7", "2", "0", "p">>,
     format_preference |-> "webm", audio_only |-> TRUE, include_subtitles |-> TRUE,
     concurrent_downloads |-> 12, organize_in_folders |-> TRUE, save_metadata |-> TRUE,
     theme |-> TRUE]

LoadFiles ==
    {JsonFile(JsonDump([key \in S |-> NonDefault[key]])) : S \in SUBSET DOMAIN NonDefault}
        \cup {NoFile, CorruptFile, UnreadableFile, NoObjectFile}

LoadInit == \E file \in LoadFiles : StartWith(file)

LoadNext == Restart \/ CliDownload({NoArgs}) \/ CliTransfer

LoadSpec == LoadInit /\ [][LoadNext]_vars

\* the two commands of the command-line program, on the same files
CliNext == CliDownload(SomeArgs) \/ CliTransfer \/ CliInfo

CliSpec == LoadInit /\ [][CliNext]_vars

(***************************************************************************)
(* One download and the frame that displays it.                            *)
(***************************************************************************)
DisplayNext ==
    \/ StartDownload(1, TheUrls, {VideoOptions}, MaxQueueClock)
    \/ Worker(1, CorePayloads, MaxCallbacks, {TRUE}, MaxQueueClock)
    \/ UpdateDisplay

DisplaySpec == Init /\ [][DisplayNext]_vars

(***************************************************************************)
(* Properties.                                                             *)
(***************************************************************************)
Status(t) == items[t].status
Done(t) == t \in Created /\ pc[t][1] = "done"

\* the step is a progress_hook call with a 'downloading' payload, for item t
DownloadingCall(t) ==
    /\ Len(hist'[t].cbs) = Len(hist[t].cbs) + 1
    /\ hist'[t].cbs[Len(hist'[t].cbs)] = "downloading"

\* C1: once an item's status is completed, failed or cancelled, no step of
\* any thread changes it.
C1_TerminalStatusIsFinal ==
    [][\A t \in Created : Status(t) \in Terminal => items'[t].status = Status(t)]_vars

\* C2: every task start_download created eventually has a terminal status,
\* and has one terminal status only over its lifetime (under fair scheduling
\* of its worker and library calls that end).
C2_ReachesExactlyOneTerminalStatus ==
    /\ \A t \in 1..MaxTasks :
         (t \in Created) ~> (t \in Created /\ Status(t) \in Terminal)
    /\ [][\A t \in Created :
            Status(t) \in Terminal => items'[t].status \in {Status(t)}]_vars

\* the eventuality of C2 alone
EventuallyTerminal ==
    \A t \in 1..MaxTasks : (t \in Created) ~> (t \in Created /\ Status(t) \in Terminal)

\* C3: in every state, an item whose status is completed has progress 100.
C3_CompletedHasFullProgress ==
    \A t \in Created : Status(t) = "completed" => items[t].progress = Progress100

\* C4: end_time, once not None, keeps its value, and is not None only when
\* the status is completed, failed or cancelled.
C4_EndTimeWrittenOnce ==
    /\ [][\A t \in Created :
            items[t].end_time # None => items'[t].end_time = items[t].end_time]_vars
    /\ [](\A t \in Created : items[t].end_time # None => Status(t) \in Terminal)

\* the second half of C4 alone
EndTimeOnlyWhenTerminal ==
    \A t \in Created : items[t].end_time # None => Status(t) \in Terminal

\* a callback sequence: 'downloading' any number of times, then 'finished'
DownloadingsThenFinished(cbs) ==
    /\ Len(cbs) >= 1
    /\ cbs[Len(cbs)] = "finished"
    /\ \A i \in 1..(Len(cbs) - 1) : cbs[i] = "downloading"

\* C5: a worker whose transfer delivered 'downloading' callbacks followed by
\* one 'finished' callback and returned without raising ends with status
\* completed and progress 100.
C5_FinishedSequenceCompletes ==
    \A t \in Created :
        (Done(t) /\ hist[t].returned /\ DownloadingsThenFinished(hist[t].cbs))
            => (Status(t) = "completed" /\ items[t].progress = Progress100)

\* the sequence downloading, downloading, finished, ended
C5_Witness ==
    \E t \in Created :
        /\ Done(t) /\ hist[t].returned
        /\ hist[t].cbs = <<"downloading", "downloading", "finished">>
        /\ Status(t) = "completed"

Reported(d) == ParseFloat(RemoveChar(d.percent, "%"))

\* C7 for the transfers in which the library itself never reports less than
\* the progress the item shows
ProgressNeverDropsUnlessReported ==
    [][\A t \in Created :
         (/\ DownloadingCall(t) /\ Status(t) = "downloading"
          /\ cur'[t].has_percent /\ Reported(cur'[t]).ok
                => Reported(cur'[t]).val >= items[t].progress)
             => items'[t].progress >= items[t].progress]_vars

\* C7: while the status is downloading, a 'downloading' callback never
\* lowers progress.
C7_ProgressNeverDrops ==
    [][\A t \in Created :
         (DownloadingCall(t) /\ Status(t) = "downloading")
             => items'[t].progress >= items[t].progress]_vars

\* _percent_str, with its % removed, is not a number
PercentUnparsable(d) == d.has_percent /\ ~ParseFloat(RemoveChar(d.percent, "%")).ok

\* C8: a 'downloading' callback leaves progress, speed, eta, file_size,
\* filename as they were when the payload lacks the field or carries a
\* value that cannot be parsed, and no such payload makes the task fail.
C8_MalformedPayloadTolerated ==
    [][\A t \in Created :
         DownloadingCall(t) =>
            LET d == cur'[t]
            IN  /\ (~d.has_percent \/ PercentUnparsable(d))
                      => items'[t].progress = items[t].progress
                /\ ~d.has_speed => items'[t].speed = items[t].speed
                /\ ~d.has_eta => items'[t].eta = items[t].eta
                /\ d.bytes_kind # "int" => items'[t].file_size = items[t].file_size
                /\ d.fname_kind # "str" => items'[t].filename = items[t].filename
                /\ hist'[t].raised = ""]_vars

\* C9: in every state, error is non-empty only if status is failed.
C9_ErrorOnlyWhenFailed ==
    \A t \in Created : items[t].error # "" => Status(t) = "failed"

\* the handler has written the error
C9_Witness ==
    \E t \in Created : items[t].error # "" /\ pc[t] = <<"exc", 3>>

\* C10: while remove_download / clear_completed run beside a worker and the
\* update loop, no thread raises because of a removal, a removed id leaves
\* both registries, and no step of a worker or of the update loop changes a
\* registry.
C10_RemovalIsSafe ==
    /\ [](loop.raised # "shrank")
    /\ [][\A k \in DictKeys(downloads) \cup DictKeys(download_frames) :
            (k \notin DictKeys(downloads') \/ k \notin DictKeys(download_frames'))
                => (k \notin DictKeys(downloads') /\ k \notin DictKeys(download_frames'))]_vars
    /\ [][((pc' # pc /\ Len(pc') = Len(pc)) \/ loop' # loop)
            => UNCHANGED <<downloads, download_frames>>]_vars

\* the parts of C10 other than "no thread raises"
RegistryOnlyChangedByControl ==
    /\ [][\A k \in DictKeys(downloads) \cup DictKeys(download_frames) :
            (k \notin DictKeys(downloads') \/ k \notin DictKeys(download_frames'))
                => (k \notin DictKeys(downloads') /\ k \notin DictKeys(download_frames'))]_vars
    /\ [][((pc' # pc /\ Len(pc') = Len(pc)) \/ loop' # loop)
            => UNCHANGED <<downloads, download_frames>>]_vars

\* the step belongs to the exception handler of item t's worker
HandlerStep(t) == At(t, "exc") /\ pc'[t] # pc[t]

\* what item u shows of its task
Snapshot(u) == <<items[u].status, items[u].progress, items[u].error, items[u].end_time>>

\* C11: a step of one worker's exception handler leaves the status, progress,
\* error and end_time of every other item and both registries as they were,
\* and leaves every other worker where it was with what its next step
\* depends on (its position, the payload in hand, its callback count), so
\* that it can proceed as it could before.
C11_FailureIsLocal ==
    [][\A t \in Created : HandlerStep(t) =>
          /\ \A u \in Created \ {t} :
               /\ <<items'[u].status, items'[u].progress, items'[u].error,
                    items'[u].end_time>> = Snapshot(u)
               /\ pc'[u] = pc[u] /\ cur'[u] = cur[u] /\ hist'[u] = hist[u]
          /\ UNCHANGED <<downloads, download_frames>>]_vars

\* one worker has failed while another is still downloading, both registered
C11_Witness ==
    \E t, u \in Created :
        /\ t # u
        /\ Done(t) /\ Status(t) = "failed"
        /\ Status(u) = "downloading" /\ ~Done(u)
        /\ DictHas(downloads, items[t].id) /\ DictHas(downloads, items[u].id)

\* update_display has returned with these widgets set
Shown == view.pc = "idle" /\ view.details # <<>>

\* C12: whatever the main thread reads of an item while its worker runs
\* belongs to one finished update: a terminal status comes with its
\* end_time, status failed with its error; and what update_display puts on
\* the screen agrees: "Failed" with an error text, the label completed with
\* a full bar.
C12_ReaderSeesWholeUpdates ==
    /\ \A t \in Created :
         /\ Status(t) \in Terminal => items[t].end_time # None
         /\ Status(t) = "failed" => items[t].error # ""
    /\ Shown =>
         /\ view.details[1] = "Failed" => view.details[2] # ""
         /\ view.text = "completed" => view.bar = Progress100

\* what update_display shows alone
DisplayIsWhole ==
    Shown =>
        /\ view.details[1] = "Failed" => view.details[2] # ""
        /\ view.text = "completed" => view.bar = Progress100

\* the step is a start_download call
Starts == Len(items') = Len(items) + 1

\* C14: two DownloadItem objects created in one run never have the same id,
\* and start_download never assigns to a key that downloads or
\* download_frames already holds.
C14_IdsAreUnique ==
    /\ [](\A a, b \in Created : a # b => items[a].id # items[b].id)
    /\ [][Starts =>
            LET id == items'[Len(items')].id
            IN  ~DictHas(downloads, id) /\ ~DictHas(download_frames, id)]_vars

\* the second half of C14 alone
NeverOverwrites ==
    [][Starts =>
         LET id == items'[Len(items')].id
         IN  ~DictHas(downloads, id) /\ ~DictHas(download_frames, id)]_vars

\* the worker of item t has put a format into its ydl_opts
Resolved(t) == t \in Created /\ ydl_opts[t] # NoFormat

\* the selector asks for a video stream
IsVideoSelector(f) == \E i \in 1..Len(f) : f[i] \in {"bv*", "wv*"}

\* st2 has the settings' value in every field options o leave unspecified
AgreesWhereUnspecified(st2, o) ==
    \A key \in {"quality", "format_preference", "audio_only"} :
        key \notin o.keys => st2[key] = settings[key]

\* C15: a non-empty format_id is the format handed to the library; without
\* one, type video gets a video selector and type audio an audio selector
\* whatever the settings are; and the settings' quality, format_preference
\* and audio_only bear on the format only for fields the options leave
\* unspecified.
C15_OptionsPrecedence ==
    \A t \in Created : Resolved(t) =>
        LET o == options[t]
            f == ydl_opts[t].format
        IN  /\ o.format_id # "" => f = <<o.format_id>>
            /\ (o.format_id = "" /\ o.type = "video") => IsVideoSelector(f)
            /\ (o.format_id = "" /\ o.type = "audio") => ~IsVideoSelector(f)
            /\ \A st2 \in FormatSettings :
                 AgreesWhereUnspecified(st2, o) => WorkerFormat(o, st2).format = f

\* the first part of C15 alone: an explicit format_id wins
FormatIdWins ==
    \A t \in Created :
        (Resolved(t) /\ options[t].format_id # "")
            => ydl_opts[t].format = <<options[t].format_id>>

\* an explicit format_id has been resolved under settings that ask for audio
FormatIdWins_Witness ==
    \E t \in Created :
        Resolved(t) /\ options[t].format_id # "" /\ settings.audio_only

(***************************************************************************)
(* Reading a selector: its alternatives (separated by "/") and the filters *)
(* of each.                                                                *)
(***************************************************************************)
RECURSIVE Alternatives(_)
Alternatives(f) ==
    IF \E i \in 1..Len(f) : f[i] = "/"
    THEN LET i == CHOOSE j \in 1..Len(f) : f[j] = "/" /\ \A k \in 1..(j - 1) : f[k] # "/"
         IN  <<SubSeq(f, 1, i - 1)>> \o Alternatives(SubSeq(f, i + 1, Len(f)))
    ELSE <<f>>

HasContainer(alt) ==
    \E i \in 1..Len(alt) : alt[i] \in {"[ext=mp4]", "[ext=m4a]", "[ext=webm]"}

HasHeight(alt) == \E i \in 1..Len(alt) : alt[i] = "[height<="

\* the numbers of the height filters of f, as written
Heights(f) ==
    {SubSeq(f, i + 1,
            (CHOOSE j \in (i + 1)..Len(f) :
                f[j] = "]" /\ \A k \in (i + 1)..(j - 1) : f[k] # "]") - 1) :
        i \in {n \in 1..Len(f) : f[n] = "[height<="}}

\* the selections made for a download with video: by the worker of item t
\* (no format_id, neither type audio nor audio_only), by the command-line
\* program (no audio_only); each with its quality, container and selector
WorkerSelected(t) ==
    /\ Resolved(t)
    /\ options[t].format_id = ""
    /\ DownloadType(options[t]) # "audio"
    /\ ~(options[t].audio_only \/ settings.audio_only)

CliSelected ==
    /\ cli.pc = "transfer"
    /\ ~CliAudioOnly(cli.args, cli_load_settings(settings_file))

Selections ==
    {[quality |-> OptionOrSetting(options[t], settings, "quality"),
      container |-> OptionOrSetting(options[t], settings, "format_preference"),
      format |-> ydl_opts[t].format, by |-> "worker"] :
        t \in {u \in Created : WorkerSelected(u)}}
    \cup
    {[quality |-> CliQuality(cli.args, cli_load_settings(settings_file)),
      container |-> CliFmt(cli.args, cli_load_settings(settings_file)),
      format |-> cli.ydl_opts.format, by |-> "cli"] :
        x \in {y \in {1} : CliSelected}}

\* the input asks for a height (a "<N>p" quality, or best in mp4 with its
\* cap) or for a container
Constrained(sel) ==
    \/ sel.quality \notin {QBest, QWorst}
    \/ sel.quality # QWorst /\ sel.container \in {"mp4", "webm"}

\* C16: the selector of a video download with a height or container
\* constraint has three alternatives: one filtered by container and height,
\* one filtered by height only, one with neither filter.
C16_FallbackChain ==
    \A sel \in Selections : Constrained(sel) =>
        LET alts == Alternatives(sel.format)
        IN  /\ Len(alts) = 3
            /\ HasContainer(alts[1]) /\ HasHeight(alts[1])
            /\ ~HasContainer(alts[2]) /\ HasHeight(alts[2])
            /\ ~HasContainer(alts[3]) /\ ~HasHeight(alts[3])

\* the end of C16 alone: the last alternative has neither filter
LastAlternativeUnconstrained ==
    \A sel \in Selections : Constrained(sel) =>
        LET alts == Alternatives(sel.format)
        IN  ~HasContainer(alts[Len(alts)]) /\ ~HasHeight(alts[Len(alts)])

\* what the selectors do provide: a last alternative without container filter
LastAlternativeAnyContainer ==
    \A sel \in Selections : Constrained(sel) =>
        LET alts == Alternatives(sel.format)
        IN  ~HasContainer(alts[Len(alts)])

\* best quality with container 'any', or one no branch names
BestOfAny(sel) == sel.quality = QBest /\ sel.container \notin {"mp4", "webm", "mkv"}

\* the selector for best quality in mp4, as the same program derives it
SelectBestMp4(by) ==
    IF by = "worker" THEN BestFormat("mp4").format
    ELSE build_format_string(QBest, "mp4", FALSE)

\* C17: for best quality, the selector for container 'any' (or an
\* unrecognised one) has the alternatives of the selector for mp4, each
\* with the height<=1080 cap.
C17_AnyMirrorsMp4 ==
    \A sel \in Selections : BestOfAny(sel) =>
        /\ Alternatives(sel.format) = Alternatives(SelectBestMp4(sel.by))
        /\ \A i \in 1..Len(Alternatives(sel.format)) :
             HasHeight(Alternatives(sel.format)[i])

\* an alternative with its height filters taken out
RECURSIVE WithoutHeight(_)
WithoutHeight(f) ==
    IF f = <<>> THEN <<>>
    ELSE IF Head(f) = "[height<="
         THEN LET j == CHOOSE k \in 1..Len(f) : f[k] = "]" /\ \A m \in 1..(k - 1) : f[m] # "]"
              IN  WithoutHeight(SubSeq(f, j + 1, Len(f)))
         ELSE <<Head(f)>> \o WithoutHeight(Tail(f))

\* C17 as amended: for best quality, the selector for container 'any' (or an
\* unrecognised one) has the alternatives of the selector for mp4 with the
\* height<=1080 filters taken out of them; it carries no height cap.
C17_AnyMirrorsMp4Uncapped ==
    \A sel \in Selections : BestOfAny(sel) =>
        /\ sel.format = WithoutHeight(SelectBestMp4(sel.by))
        /\ Heights(sel.format) = {}

\* both programs have derived the selector for best quality, container any
C17_Witness ==
    /\ \E sel \in Selections : BestOfAny(sel) /\ sel.by = "worker" /\ sel.container = "any"
    /\ \E sel \in Selections : BestOfAny(sel) /\ sel.by = "cli"

\* the N of a quality string "<N>p": the string without its last character
HeightOf(quality) == SubSeq(quality, 1, Len(quality) - 1)

\* C18: for a quality "<N>p" and any container, the selector of a video
\* download has at least one height filter, and every height filter reads
\* height<=N with that very N: the number read back out of it is N.
C18_HeightRoundTrip ==
    \A sel \in Selections : sel.quality \in HeightQualities =>
        /\ Heights(sel.format) # {}
        /\ \A h \in Heights(sel.format) :
             /\ h = HeightOf(sel.quality)
             /\ AllDigits(h)
             /\ DecimalValue(h, 0) = DecimalValue(HeightOf(sel.quality), 0)

\* both programs have derived a selector for a three-digit height with a
\* leading zero, the worker for webm
C18_Witness ==
    /\ \E sel \in Selections :
         /\ sel.by = "worker" /\ sel.container = "webm"
         /\ sel.quality = <<"0", "7", "2", "p">>
    /\ \E sel \in Selections :
         sel.by = "cli" /\ sel.quality \in HeightQualities

\* C19: a result with 0 or 1 entries is shown as a single video, with exactly
\* one preview item; a result with 2 or more entries is shown as a
\* collection (playlist or channel); the _type of the result does not bear
\* on which of the two it is.
C19_SingleUpToOneEntry ==
    preview.data # NoInfo =>
        LET entry_count == Len(preview.data.entries)
        IN  /\ entry_count <= 1 =>
                 /\ preview.content_type = <<"Single Video">>
                 /\ Len(preview.items) = 1
            /\ entry_count >= 2 =>
                 /\ preview.content_type[1] \in {"Playlist", "Channel/Collection"}
                 /\ preview.content_type[2] = entry_count

\* a playlist of exactly one entry has been shown
C19_Witness ==
    /\ preview.data.type = "playlist"
    /\ Len(preview.data.entries) = 1
    /\ preview.content_type = <<"Single Video">>

\* C20: after save_settings has written the settings file, load_settings
\* from that file returns the value that was saved: every recognized key is
\* there and holds the same value.
C20_SettingsRoundTrip ==
    (saved.how = "written" /\ saved.reloaded) =>
        /\ SettingKeys \subseteq DOMAIN settings
        /\ \A key \in SettingKeys : settings[key] = saved.value[key]

\* settings that differ from the defaults in every recognized key, with a
\* quote in output_dir, have been written and read back
C20_Witness ==
    /\ saved.how = "written"
    /\ saved.reloaded
    /\ \A key \in SettingKeys : saved.value[key] # DefaultSettings[key]
    /\ \E i \in 1..Len(saved.value.output_dir) : saved.value.output_dir[i] = "\""

\* a save that did not reach the file leaves the next run with what the file
\* held before: the defaults here
C20_FailedSaveIsLost ==
    (saved.how = "broken off" /\ saved.reloaded) => settings = DefaultSettings

\* What load_settings is to return for the settings file of the state, the
\* function having the given defaults: a value for each of the keys; the
\* file's value for a key the file's object holds, the default for a key it
\* does not hold; the defaults when there is no file or the try block raised.
LoadedAsDocumented(st, defaults, keys) ==
    /\ keys \subseteq DOMAIN st
    /\ \A key \in keys \cap DOMAIN st :
         st[key] = IF settings_file.exists /\ settings_file.ok
                      /\ key \in DOMAIN settings_file.members
                   THEN NonDefault[key]
                   ELSE defaults[key]

\* no exception has left load_settings, in the application or in the
\* command-line program
LoadNeverRaised ==
    /\ saved.raised = ""
    /\ cli.command = "download" =>
         (cli.escaped = "" \/ cli.escaped # LoadError(settings_file))

CliLoaded == cli.command = "download"

\* C21: load_settings never raises and returns a value for every recognized
\* key: the file's value when a readable file holds the key, the default when
\* it does not, all defaults when the file is absent, unreadable or corrupt;
\* a key that is not recognized causes no error.  Both the application's
\* load_settings and the command-line program's.
C21_LoadAlwaysComplete ==
    /\ LoadNeverRaised
    /\ LoadedAsDocumented(settings, DefaultSettings, SettingKeys)
    /\ CliLoaded => LoadedAsDocumented(cli.settings, DefaultSettings, SettingKeys)

\* C21 as the code has it: the command-line program's load_settings knows
\* four of the keys (output_dir, quality, format_preference, audio_only) and
\* returns a value for each of these; the other four are in its result only
\* when the file holds them.
C21_LoadCompleteForOwnDefaults ==
    /\ LoadNeverRaised
    /\ LoadedAsDocumented(settings, DefaultSettings, SettingKeys)
    /\ CliLoaded =>
         /\ LoadedAsDocumented(cli.settings, CliDefaults, DOMAIN CliDefaults)
         /\ \A key \in SettingKeys \ DOMAIN CliDefaults :
              key \in DOMAIN cli.settings <=>
                  (settings_file.ok /\ key \in DOMAIN settings_file.members)

\* both programs have loaded a file that holds quality and a key nobody
\* reads, and does not hold audio_only
C21_Witness ==
    /\ saved.reloaded
    /\ cli.pc = "transfer"
    /\ settings_file.ok
    /\ {"quality", "theme"} \subseteq DOMAIN settings_file.members
    /\ "audio_only" \notin DOMAIN settings_file.members

\* both programs have come up on a file that cannot be parsed
C21_CorruptWitness ==
    /\ saved.reloaded
    /\ cli.pc = "transfer"
    /\ settings_file = CorruptFile

\* what the command raised, if anything
CliRaised == IF cli.error # "" THEN cli.error ELSE cli.escaped

\* C22: download and info end with exit code 0 when the command completes
\* without an exception, and with exit code 1 and a message on standard
\* error when an exception is raised inside the command; no exception of a
\* command leaves main().
C22_ExitCodes ==
    cli.pc = "exit" =>
        /\ cli.escaped = ""
        /\ cli.exit_code = IF CliRaised = "" THEN 0 ELSE 1
        /\ CliRaised # "" => cli.error = CliRaised

\* C22 as the code has it: the same for every exception that derives from
\* Exception; what does not (the KeyboardInterrupt of a user who stops a
\* transfer) leaves main() without the message, and the interpreter sets the
\* exit status.
C22_ExitCodesForExceptions ==
    cli.pc = "exit" =>
        /\ CliRaised = "" => cli.exit_code = 0
        /\ CliRaised \in ExceptionClasses =>
             /\ cli.exit_code = 1
             /\ cli.error = CliRaised
             /\ cli.escaped = ""
        /\ cli.escaped # "" =>
             /\ cli.escaped \notin ExceptionClasses
             /\ cli.error = ""
             /\ cli.exit_code \in InterruptCodes

\* a download whose transfer raised DownloadError has ended
C22_Witness ==
    /\ cli.pc = "exit"
    /\ cli.command = "download"
    /\ cli.error = "DownloadError"
    /\ cli.ydl_opts # NoFormat

\* C23: the update loop never stops, whatever start_download,
\* remove_download and clear_completed calls run beside it: it has not left
\* its while statement.
C23_LoopNeverStops == loop.pc # "dead"

\* the same with start_download alone beside the loop: no removal is needed
\* to stop it
LoopSurvivesAdding == loop.raised # "grew"

\* the step is a start_download call
Started == Len(items') = Len(items) + 1

Downloading == {t \in Created : items[t].status = "downloading"}

\* C24: every start_download call registers exactly one new task, under an
\* id neither registry held, and starts exactly one worker for it in the same
\* call, however many tasks are downloading and whatever concurrent_downloads
\* is; no other task's registration or worker is touched.
C24_OneWorkerPerStart ==
    [][Started =>
        LET n == Len(items')
            id == items'[n].id
        IN  /\ id \notin DictKeys(downloads) \cup DictKeys(download_frames)
            /\ DictKeys(downloads') = DictKeys(downloads) \cup {id}
            /\ DictKeys(download_frames') = DictKeys(download_frames) \cup {id}
            /\ DictGet(downloads', id) = n
            /\ pc' = Append(pc, <<"start", 0>>)
            /\ items'[n].status = "pending"
            /\ \A t \in Created : items'[t] = items[t]]_vars

\* more tasks are downloading at once than concurrent_downloads says
C24_Witness == Cardinality(Downloading) > settings.concurrent_downloads

\* C25: whenever no control-thread operation is under way, downloads and
\* download_frames have the same keys, and under each key the frame is the
\* one built for the item stored under that key, which carries the key as
\* its id.
C25_RegistriesAgree ==
    ctl.pc = "idle" =>
        /\ DictKeys(downloads) = DictKeys(download_frames)
        /\ \A k \in DictKeys(downloads) :
             /\ DictGet(download_frames, k) = DictGet(downloads, k)
             /\ items[DictGet(downloads, k)].id = k

\* one task has been removed while another is still registered
C25_Witness ==
    /\ ctl.pc = "idle"
    /\ DictKeys(downloads) # {}
    /\ \E t \in Created : items[t].id \notin DictKeys(downloads)

\* the step is the return of an add_selected_to_queue call that made its
\* start_download calls
AddReturns == ctl.pc = "add" /\ ctl'.pc = "idle"

SelectedItems == {i \in 1..Len(preview.items) : preview.items[i].selected}

EnabledKinds(kinds) ==
    {k \in {"video", "audio", "metadata"} : kinds[k]}

\* C26: add_selected_to_queue creates one task per pair of a selected
\* preview item and a ticked kind, with the item's url, registers each, and
\* then deselects every preview item; when there is no preview item, none is
\* selected or no kind is ticked, it shows a warning and changes neither the
\* registries nor the selection.
C26_OneTaskPerPair ==
    /\ [][AddReturns =>
            LET new == (ctl.base + 1)..Len(items)
                kinds == EnabledKinds(ctl.kinds)
            IN  /\ Cardinality(new) = Cardinality(SelectedItems) * Cardinality(kinds)
                /\ \A i \in SelectedItems, k \in kinds :
                     Cardinality({t \in new : /\ items[t].url = preview.items[i].url
                                              /\ options[t].type = k})
                         = Cardinality({j \in SelectedItems :
                                           preview.items[j].url = preview.items[i].url})
                /\ \A t \in new : /\ DictGet(downloads, items[t].id) = t
                                   /\ DictGet(download_frames, items[t].id) = t
                /\ Len(preview'.items) = Len(preview.items)
                /\ \A i \in 1..Len(preview.items) :
                     preview'.items[i] = [preview.items[i] EXCEPT !.selected = FALSE]]_vars
    /\ [][preview'.warning # preview.warning =>
            /\ UNCHANGED <<items, pc, downloads, download_frames, options, ctl>>
            /\ preview'.items = preview.items
            /\ preview'.warning = "No Content" => preview.items = <<>>
            /\ preview'.warning = "No Selection" =>
                 (preview.items # <<>> /\ SelectedItems = {})
            /\ preview'.warning = "No Options" => SelectedItems # {}]_vars
    /\ [][(ctl.pc = "idle" /\ ctl'.pc = "add") =>
            (SelectedItems # {} /\ ctl'.kinds # NoKinds)]_vars

\* two selected items have been queued as video and as audio: four tasks,
\* and nothing is selected any more
C26_Witness ==
    /\ ctl.pc = "idle"
    /\ Len(items) = 4
    /\ {options[t].type : t \in Created} = {"video", "audio"}
    /\ Cardinality({items[t].url : t \in Created}) = 2
    /\ Len(preview.items) >= 2
    /\ SelectedItems = {}

\* a call with nothing selected has shown its warning beside a queue that
\* holds tasks
C26_NothingSelected ==
    /\ preview.warning = "No Selection"
    /\ Len(items) > 0

\* the quality, container and audio_only the worker of item t derives its
\* format from (main_app.py:1017-1019), and those of the command-line program
\* (cli.py:88-90)
WorkerInputs(t) ==
    [quality |-> OptionOrSetting(options[t], settings, "quality"),
     container |-> OptionOrSetting(options[t], settings, "format_preference"),
     audio_only |-> (DownloadType(options[t]) = "audio"
                        \/ options[t].audio_only \/ settings.audio_only)]

CliInputs ==
    [quality |-> CliQuality(cli.args, cli.settings),
     container |-> CliFmt(cli.args, cli.settings),
     audio_only |-> CliAudioOnly(cli.args, cli.settings)]

\* the worker of item t and the command-line program have both derived a
\* format, from the same quality, the same container out of mp4, webm, mkv
\* and any, and the same audio_only
SameInputs(t) ==
    /\ Resolved(t)
    /\ options[t].format_id = ""
    /\ cli.pc = "transfer"
    /\ WorkerInputs(t) = CliInputs
    /\ CliInputs.container \in {"mp4", "webm", "mkv", "any"}

\* C27: from the same quality, container and audio_only the command-line
\* program hands the library the same format selector and the same
\* merge_output_format as the application's worker.
C27_CliMatchesWorker ==
    \A t \in Created : SameInputs(t) => cli.ydl_opts = ydl_opts[t]

\* the format selectors agree
SameSelector ==
    \A t \in Created : SameInputs(t) => cli.ydl_opts.format = ydl_opts[t].format

\* merge_output_format agrees except for quality worst and for best in any
\* container
SameMergeExceptWorstAndAny ==
    \A t \in Created :
        (/\ SameInputs(t)
         /\ CliInputs.quality # QWorst
         /\ ~(CliInputs.quality = QBest /\ CliInputs.container = "any"))
            => cli.ydl_opts.merge_output_format = ydl_opts[t].merge_output_format

\* every analysis that was requested has delivered its result (none
\* failed), and the main thread has shown each
AllDelivered ==
    /\ preview.analyses # <<>>
    /\ \A i \in 1..Len(preview.analyses) : preview.analyses[i].pc = "done"

LastRequested == preview.analyses[Len(preview.analyses)].url

\* C28: once every analysis in flight has delivered its result, the preview
\* items and the content-type label are those of the URL requested last, in
\* whatever order the threads finished.
C28_LastRequestWins ==
    AllDelivered => preview = Show(preview, AnalysisResult(LastRequested))

\* what the code has instead: the preview is that of some requested URL, or
\* still says "Analyzing..." when the last result arrived before the last
\* request
SomeRequestWins ==
    (AllDelivered /\ preview.content_type # <<"Analyzing...">>) =>
        \E i \in 1..Len(preview.analyses) :
            preview = Show(preview, AnalysisResult(preview.analyses[i].url))

\* with the label aside: the preview items are those of the last request
LastRequestWinsItems ==
    AllDelivered => preview.items = Show(preview, AnalysisResult(LastRequested)).items

\* the step is the return of clear_completed
ClearReturns == ctl.pc = "cc_remove" /\ ctl'.pc = "idle"

\* the step is one of clear_completed
ClearSteps == ctl.pc \in {"cc_scan", "cc_remove"} /\ ctl' # ctl

Collected == {ctl.to_remove[i] : i \in 1..Len(ctl.to_remove)}

\* no step of clear_completed writes a field of an item or moves a worker
ClearLeavesTasksAlone ==
    [][ClearSteps => UNCHANGED <<items, pc, cur, exc, hist>>]_vars

\* C29: clear_completed removes from both registries exactly the tasks that
\* were completed, failed or cancelled when it was called, and leaves every
\* other task registered; it changes no field of any item and stops no
\* worker.
C29_ClearsExactlyTerminalAtCall ==
    /\ [][ClearReturns => Collected = ctl.called]_vars
    /\ [][ClearSteps =>
            /\ DictKeys(downloads) \ DictKeys(downloads') \subseteq ctl.called
            /\ DictKeys(download_frames) \ DictKeys(download_frames') \subseteq ctl.called]_vars
    /\ ClearLeavesTasksAlone

\* C29 as the code has it: clear_completed removes the tasks whose status is
\* completed, failed or cancelled when its scan reads them, which includes
\* every task that was so when it was called; a task that is pending or
\* downloading when the scan reads it stays registered; no field of any
\* item changes and no worker is stopped.
C29_ClearsTerminalWhenScanned ==
    /\ [][(ctl.pc = "cc_scan" /\ ctl'.pc = "cc_scan" /\ ctl'.pos # ctl.pos) =>
            LET e == downloads[ctl'.pos]
            IN  (e.key \in {ctl'.to_remove[i] : i \in 1..Len(ctl'.to_remove)})
                    <=> items[e.val].status \in Terminal]_vars
    /\ [][ClearReturns =>
            /\ ctl.called \subseteq Collected
            /\ Collected \cap DictKeys(downloads') = {}
            /\ Collected \cap DictKeys(download_frames') = {}]_vars
    /\ [][ClearSteps =>
            /\ DictKeys(downloads) \ DictKeys(downloads') \subseteq Collected
            /\ DictKeys(download_frames) \ DictKeys(download_frames') \subseteq Collected]_vars
    /\ ClearLeavesTasksAlone

\* clear_completed has removed a task and is about to return, a downloading
\* task staying registered
C29_Witness ==
    /\ ctl.pc = "cc_remove"
    /\ ctl.pos = Len(ctl.to_remove)
    /\ ctl.pos >= 1
    /\ \E t \in Created : /\ items[t].status = "downloading"
                           /\ items[t].id \in DictKeys(downloads)
                           /\ pc[t][1] # "done"

\* the title start_download gives an item and the worker's tag before it
TaggedTitle(t) == TitleTag(options[t], settings) \o <<"Unknown">>

\* C30: once the worker's extract_info has returned a result with a title,
\* the item's title is that title, without the tag written while the
\* options were resolved; the tagged title stays only when the result has
\* no title key.
C30_ResolvedTitleReplacesTag ==
    \A t \in Created :
        /\ hist[t].info = "title" => items[t].title = ResolvedTitle
        /\ hist[t].info = "no title" => items[t].title = TaggedTitle(t)
        /\ (hist[t].info # "" /\ items[t].title = TaggedTitle(t))
               => hist[t].info = "no title"

\* a tagged title was replaced by the resolved one
C30_Witness ==
    \E t \in Created :
        /\ hist[t].info = "title"
        /\ TitleTag(options[t], settings) # <<>>
        /\ items[t].title = ResolvedTitle
        /\ hist[t].returned

\* a tagged title stayed, the result having no title key
C30_TagSurvives ==
    \E t \in Created :
        /\ hist[t].info = "no title"
        /\ TitleTag(options[t], settings) # <<>>
        /\ items[t].title = TaggedTitle(t)

====
